---- MODULE Spec2Model ----
(***************************************************************************)
(* Model of the compell agent: the orchestration loop                      *)
(* (agent.Agent.ProcessUserInput), the session store (session.Session),    *)
(* the ACP JSON-RPC server (agent/acp.Run and its handlers) and the        *)
(* terminal front-end (agent/terminal.Terminal).                           *)
(*                                                                         *)
(* Text (message contents, tool names, tool results) is a sequence of      *)
(* one-character strings, so that formatting and "contains" are computed.  *)
(* The server is single-threaded: one step of the model is one iteration   *)
(* of a loop of the code up to its next call of the LLM, of a tool or of   *)
(* the input reader.                                                       *)
(***************************************************************************)
EXTENDS Integers, Sequences, FiniteSets, TLC

(* ------------------------------ bounds --------------------------------- *)

\* number of lines the peer (or the terminal user) sends in one run
MaxLines == 3

\* number of LLM invocations of one run; the backend requests tools only while
\* a later invocation is left to end the turn
MaxChats == 2

\* number of failures of the file system (Save, Load, session.New) in one run
MaxFaults == 1

\* number of frames handed to writeFramedJSON in a run of the writer alone
MaxFrames == 3

\* size of the buffer of StdoutWriter, in bytes (bufio's is 4096; frames are
\* scaled alike: one to three bytes of JSON)
BufSize == 2

\* the number of messages of a session that is saved and loaded
MaxMessages == 2

(* ------------------------------- text ---------------------------------- *)

StrErrorExecutingTool ==
    <<"E", "r", "r", "o", "r", " ", "e", "x", "e", "c", "u", "t", "i", "n", "g", " ", "t", "o", "o", "l", " ">>

StrColonSpace ==
    <<":", " ">>

StrError ==
    <<"E", "r", "r", "o", "r">>

StrUserDenied ==
    <<"U", "s", "e", "r", " ", "d", "e", "n", "i", "e", "d", " ", "t", "o", "o", "l", " ", "e", "x", "e", "c", "u", "t", "i", "o", "n", ".">>

StrNotFoundPrefix ==
    <<"[", "a", "g", "e", "n", "t", ".", "g", "o", ":", "1", "5", "6", "]", " ", "t", "o", "o", "l", " ", "'">>

StrNotFoundSuffix ==
    <<"'", " ", "n", "o", "t", " ", "f", "o", "u", "n", "d", " ", "i", "n", " ", "t", "h", "e", " ", "a", "v", "a", "i", "l", "a", "b", "l", "e", " ", "t", "o", "o", "l", "s", "e", "t">>

\* strings.Contains(s, sub)
Contains(s, sub) ==
    \E i \in 0..(Len(s) - Len(sub)) :
        \A j \in 1..Len(sub) : s[i + j] = sub[j]

\* the byte 0xFF, which is not valid UTF-8, and the replacement rune U+FFFD
BadByte == "\\xff"

ReplacementChar == "\\ufffd"

(* --------------------------- the data model ---------------------------- *)

\* a nil map of arguments
NilArgs == "nil"

ToolCall(id, name, args) ==
    [ToolCallID |-> id, Name |-> name, Args |-> args]

Message(role, content, toolCalls) ==
    [Role |-> role, Content |-> content, ToolCalls |-> toolCalls]

\* session identifiers: the text "sess_<ts>_<seq>", or a name given by the user
SessionIdOf(ts, seq) == <<"sess_", ts, seq>>

NamedId(name) == <<name, 0, 0>>

\* session.New(name): an empty session whose file is the one of its name
SessionNew(name) ==
    [Name |-> name, Messages |-> <<>>, Mode |-> "", Toolset |-> "",
     ToolVerbosity |-> "", Acp |-> FALSE, path |-> name]

\* AddMessage that puts the message at the head of the history
AddMessageInFront(s, msg) ==
    [s EXCEPT !.Messages = <<msg>> \o @]

\* Session.AddMessage
AddMessage(s, msg) ==
    [s EXCEPT !.Messages = Append(@, msg)]

\* encoding/json writes a string with every invalid UTF-8 byte replaced by U+FFFD
JsonString(str) ==
    [i \in 1..Len(str) |-> IF str[i] = BadByte THEN ReplacementChar ELSE str[i]]

JsonToolCall(tc) ==
    [ToolCallID |-> tc.ToolCallID, Name |-> JsonString(tc.Name), Args |-> tc.Args]

JsonMessage(m) ==
    [Role |-> m.Role, Content |-> JsonString(m.Content),
     ToolCalls |-> [i \in 1..Len(m.ToolCalls) |-> JsonToolCall(m.ToolCalls[i])]]

\* json.MarshalIndent(s): the exported fields of the session; path is not exported
MarshalSession(s) ==
    [Name |-> s.Name,
     Messages |-> [i \in 1..Len(s.Messages) |-> JsonMessage(s.Messages[i])],
     Mode |-> s.Mode, Toolset |-> s.Toolset,
     ToolVerbosity |-> s.ToolVerbosity, Acp |-> s.Acp]

\* Session.Save on a working file system: the file of the session is rewritten
SaveTo(files, s) ==
    IF s.path \in DOMAIN files
    THEN [files EXCEPT ![s.path] = MarshalSession(s)]
    ELSE [k \in (DOMAIN files) \cup {s.path} |->
            IF k = s.path THEN MarshalSession(s) ELSE files[k]]

\* session.Load(name) for a file that exists and parses
SessionLoad(files, name) ==
    [Name |-> files[name].Name, Messages |-> files[name].Messages,
     Mode |-> files[name].Mode, Toolset |-> files[name].Toolset,
     ToolVerbosity |-> files[name].ToolVerbosity, Acp |-> files[name].Acp,
     path |-> name]

(* ------------------------- tools and backend --------------------------- *)

ModeAuto == "auto"

ModePrompt == "prompt"

ToolRead == <<"r", "e", "a", "d">>

ToolNope == <<"n", "o", "p", "e">>

\* Agent.AvailableTools: the names of the active tools, in order
AvailableTools == <<ToolRead>>

\* what Tool.Execute may return: a result text, or an error with its cause
ExecuteOutcomes ==
    { [err |-> FALSE, text |-> <<"o", "k">>],
      [err |-> TRUE, text |-> <<"b", "o", "o", "m">>] }

CallRead == ToolCall("call_1", ToolRead, "args_1")

CallNope == ToolCall("call_2", ToolNope, "args_2")

\* what LLMClient.Chat may return on success: one assistant message, with or
\* without text (backends return "" on an empty answer) and tool calls
ChatReplies ==
    { Message("assistant", <<>>, <<>>),
      Message("assistant", <<"h", "i">>, <<>>),
      Message("assistant", <<>>, <<CallRead>>),
      Message("assistant", <<"h", "i">>, <<CallNope, CallRead>>) }

\* errors.New("tool '%s' not found in the available toolset", name)
ErrToolNotFound(name) ==
    StrNotFoundPrefix \o name \o StrNotFoundSuffix

\* Agent.ExecuteToolCall: the first available tool of that name is executed
ExecuteToolCall(toolCall, outcome) ==
    IF \E i \in 1..Len(AvailableTools) : AvailableTools[i] = toolCall.Name
    THEN [err |-> outcome.err, text |-> outcome.text, executed |-> TRUE]
    ELSE [err |-> TRUE, text |-> ErrToolNotFound(toolCall.Name), executed |-> FALSE]

\* fmt.Sprintf("Error executing tool %s: %v", toolCall.Name, err)
FormatToolError(name, cause) ==
    StrErrorExecutingTool \o name \o StrColonSpace \o cause

\* ToolMessage without the id of the call it answers
ToolMessageNoId(toolCall, toolResult) ==
    Message("tool", toolResult, <<ToolCall("", toolCall.Name, NilArgs)>>)

\* the tool-role message of one call: the result, and the call's id and name
ToolMessage(toolCall, toolResult) ==
    Message("tool", toolResult,
            <<ToolCall(toolCall.ToolCallID, toolCall.Name, NilArgs)>>)

(* ------------------------------ frames --------------------------------- *)

\* a request id that is absent (nil); a numeric id n is <<n>>
Null == <<>>

NoId == NamedId("")

NoCall == ToolCall("", <<>>, NilArgs)

NoResult ==
    [kind |-> "none", text |-> "", sessionId |-> NoId, caps |-> <<>>]

\* json.RawMessage("null"), the result of session/load
ResultNull ==
    [kind |-> "null", text |-> "", sessionId |-> NoId, caps |-> <<>>]

\* {"sessionId": sid}
ResultSessionId(sid) ==
    [kind |-> "sessionId", text |-> "", sessionId |-> sid, caps |-> <<>>]

\* {"stopReason": "end_turn"}
ResultEndTurn ==
    [kind |-> "stopReason", text |-> "end_turn", sessionId |-> NoId, caps |-> <<>>]

\* ResultInitialize of an agent that does not advertise session/load
ResultInitializeNoLoad ==
    [kind |-> "initialize", text |-> "", sessionId |-> NoId,
     caps |-> <<1, FALSE, FALSE, FALSE, FALSE>>]

\* protocolVersion, loadSession, and the prompt capabilities audio,
\* embeddedContext, image
ResultInitialize ==
    [kind |-> "initialize", text |-> "", sessionId |-> NoId,
     caps |-> <<1, TRUE, FALSE, FALSE, FALSE>>]

\* the id member json.Marshal writes for a jsonrpcResponse: the field is
\* `json:"id,omitempty"`, so a nil id leaves the object without the member
MarshalResponseId(id) ==
    [present |-> id # Null, value |-> id]

\* jsonrpcResponse with a result
ResponseOK(id, result) ==
    [fr |-> "response", id |-> id, code |-> 0, msg |-> "", data |-> "",
     result |-> result,
     sessionId |-> NoId, update |-> "", call |-> NoCall, text |-> <<>>]

\* jsonrpcResponse with an error
ResponseError(id, code, msg, data) ==
    [fr |-> "response", id |-> id, code |-> code, msg |-> msg, data |-> data,
     result |-> NoResult,
     sessionId |-> NoId, update |-> "", call |-> NoCall, text |-> <<>>]

\* writeNotification("session/update", ...): no id
Notification(sid, update, call, text) ==
    [fr |-> "notification", id |-> Null, code |-> 0, msg |-> "", data |-> "",
     result |-> NoResult,
     sessionId |-> sid, update |-> update, call |-> call, text |-> text]

\* sendAgentMessageChunk
AgentMessageChunk(sid, text) ==
    Notification(sid, "agent_message_chunk", NoCall, text)

\* the user_message_chunk notification of session/load
UserMessageChunk(sid, text) ==
    Notification(sid, "user_message_chunk", NoCall, text)

\* sendToolCallNotification: id, name and args of the call
ToolCallNotification(sid, toolCall) ==
    Notification(sid, "tool_call", toolCall, <<>>)

\* sendToolResultNotification: the id of the call and the result
ToolResultNotification(sid, toolCallID, result) ==
    Notification(sid, "tool_result", ToolCall(toolCallID, <<>>, NilArgs), result)

(* --------------------------- inbound lines ----------------------------- *)

\* contentBlock with every field at its zero value; Size is a pointer
ContentBlock ==
    [Type |-> "", Text |-> <<>>, URI |-> <<>>, Name |-> <<>>, MimeType |-> <<>>,
     Title |-> <<>>, Description |-> <<>>, Size |-> Null]

\* a content block of a prompt
TextBlock(text) ==
    [ContentBlock EXCEPT !.Type = "text", !.Text = text]

IsSpace(c) == c \in {" ", "\t", "\n", "\r"}

\* strings.TrimSpace(text) != ""
NotBlank(text) == \E i \in 1..Len(text) : ~IsSpace(text[i])

\* strings.TrimSpace
RECURSIVE TrimLeft(_)
TrimLeft(text) ==
    IF text # <<>> /\ IsSpace(Head(text)) THEN TrimLeft(Tail(text)) ELSE text

RECURSIVE TrimRight(_)
TrimRight(text) ==
    IF text # <<>> /\ IsSpace(text[Len(text)])
    THEN TrimRight(SubSeq(text, 1, Len(text) - 1)) ELSE text

TrimSpace(text) == TrimRight(TrimLeft(text))

\* a URI is its scheme with "://", one element, followed by the characters of
\* the rest; the literals of format strings are single elements of a text
SchemeFile == "file://"

\* the files of the machine, by path
Files ==
    [path \in {<<"/", "a">>} |-> <<"d", "a", "t", "a">>]

\* readFileFromURI: the content of the file, or the error
ReadFileFromURI(uri) ==
    IF uri = <<>> \/ Head(uri) # SchemeFile
    THEN [err |-> TRUE, text |-> <<"unsupported URI scheme: ">>]
    ELSE IF Tail(uri) \in DOMAIN Files
    THEN [err |-> FALSE, text |-> Files[Tail(uri)]]
    ELSE [err |-> TRUE,
          text |-> <<"failed to read file: ", "open ">> \o Tail(uri)
                     \o <<": no such file or directory">>]

maxContentSize == 50000

\* fmt's %d of a number that is not negative
RECURSIVE Decimal(_)
Decimal(n) ==
    LET digit == <<"0", "1", "2", "3", "4", "5", "6", "7", "8", "9">>[(n % 10) + 1]
    IN IF n < 10 THEN <<digit>> ELSE Append(Decimal(n \div 10), digit)

\* the description extractUserText builds of a resource_link block
ResourceInfo(b) ==
    LET read == ReadFileFromURI(b.URI)
        content == IF Len(read.text) > maxContentSize
                   THEN SubSeq(read.text, 1, maxContentSize)
                          \o <<"\n\n[... truncated to 50KB ...]">>
                   ELSE read.text
    IN <<"=== Resource: ">> \o b.Name \o <<" ===\n">>
       \o (IF b.Title # <<>> THEN <<"Title: ">> \o b.Title \o <<"\n">> ELSE <<>>)
       \o (IF b.Description # <<>>
           THEN <<"Description: ">> \o b.Description \o <<"\n">> ELSE <<>>)
       \o <<"URI: ">> \o b.URI \o <<"\n">>
       \o (IF b.MimeType # <<>> THEN <<"Type: ">> \o b.MimeType \o <<"\n">> ELSE <<>>)
       \o (IF b.Size # Null
           THEN <<"Size: ">> \o Decimal(b.Size[1]) \o <<" bytes\n">> ELSE <<>>)
       \o (IF b.URI # <<>> /\ Head(b.URI) = SchemeFile
           THEN IF read.err
                THEN <<"\n[Error reading file: ">> \o read.text \o <<"]\n">>
                ELSE <<"\n--- File Contents ---\n">> \o content
                       \o <<"\n--- End of File ---\n">>
           ELSE <<"\n[External resource - content not available]\n">>)
       \o <<"=== End Resource ===\n">>

\* UserTextParts of an extractUserText that trims the text of a block
RECURSIVE UserTextPartsTrimmed(_)
UserTextPartsTrimmed(blocks) ==
    IF blocks = <<>> THEN <<>>
    ELSE LET b == Head(blocks)
             part == IF b.Type = "text" /\ NotBlank(b.Text) THEN <<TrimSpace(b.Text)>>
                     ELSE IF b.Type = "resource_link" THEN <<ResourceInfo(b)>>
                     ELSE <<>>
         IN part \o UserTextPartsTrimmed(Tail(blocks))

\* the parts extractUserText collects, in the order of the blocks
RECURSIVE UserTextParts(_)
UserTextParts(blocks) ==
    IF blocks = <<>> THEN <<>>
    ELSE LET b == Head(blocks)
             part == IF b.Type = "text" /\ NotBlank(b.Text) THEN <<b.Text>>
                     ELSE IF b.Type = "resource_link" THEN <<ResourceInfo(b)>>
                     ELSE <<>>
         IN part \o UserTextParts(Tail(blocks))

\* strings.Join(parts, "\n")
RECURSIVE JoinLines(_)
JoinLines(parts) ==
    IF parts = <<>> THEN <<>>
    ELSE IF Len(parts) = 1 THEN parts[1]
    ELSE parts[1] \o <<"\n">> \o JoinLines(Tail(parts))

\* extractUserText
ExtractUserText(blocks) == JoinLines(UserTextParts(blocks))

\* the params member of a request: an object with the members the handler
\* reads, a value the handler's struct cannot take, or absent
ParamsObject(sid, prompt) ==
    [shape |-> "object", sessionId |-> sid, prompt |-> prompt]

ParamsMistyped ==
    [shape |-> "mistyped", sessionId |-> NoId, prompt |-> <<>>]

ParamsAbsent ==
    [shape |-> "absent", sessionId |-> NoId, prompt |-> <<>>]

\* json.Marshal(req.Params) then json.Unmarshal into the handler's struct:
\* a missing member keeps its zero value
DecodeParams(params) ==
    [err |-> params.shape = "mistyped",
     SessionID |-> IF params.shape = "object" THEN params.sessionId ELSE NoId,
     Prompt |-> IF params.shape = "object" THEN params.prompt ELSE <<>>]

\* the bytes of one payload, by what they parse to
PayloadEmpty ==
    [json |-> "empty", typed |-> FALSE, id |-> Null, method |-> "", params |-> ParamsAbsent]

\* bytes that are not JSON, such as one part of a JSON text cut in two
PayloadInvalid ==
    [json |-> "invalid", typed |-> FALSE, id |-> Null, method |-> "", params |-> ParamsAbsent]

\* a JSON array
PayloadArray ==
    [json |-> "array", typed |-> FALSE, id |-> Null, method |-> "", params |-> ParamsAbsent]

\* the JSON text null
PayloadNull ==
    [json |-> "null", typed |-> TRUE, id |-> Null, method |-> "", params |-> ParamsAbsent]

\* a JSON object whose method member is a number
PayloadMistyped(id) ==
    [json |-> "object", typed |-> FALSE, id |-> id, method |-> "", params |-> ParamsAbsent]

\* a JSON object with the members of jsonrpcRequest
PayloadRequest(id, method, params) ==
    [json |-> "object", typed |-> TRUE, id |-> id, method |-> method, params |-> params]

(* ------------------------------ state ---------------------------------- *)

VARIABLES
    pc,            \* where the single thread is: "read", "chat", "tool", "stopped"
    sessions,      \* acpServer.sessions: session id -> Session
    agentSession,  \* Agent.Session, the session the agent works on
    agentMode,     \* Agent.Mode
    sessionIDSeq,  \* acpServer.sessionIDSeq
    disk,          \* the session files: session id -> the JSON written by Save
    out,           \* the frames written since the current line was read, in order
    lineNo,        \* the number of lines read from the input so far
    curLine,       \* the current line: what it is, and in how many parts it is read
    pending,       \* the payloads of the current line that are still to be read
    payload,       \* the payload readFramedMessage returned last
    turn,          \* the call of ProcessUserInput in progress, or the last one
    log,           \* the calls made by the current turn: LLM, tools, hooks, Save
    runErr,        \* what Run returned once stopped: "nil" or "error"
    chats,         \* the number of LLM invocations of the run so far
    faults,        \* the number of file system failures of the run so far
    wr             \* StdoutWriter, writeLock and the calls of writeFramedJSON under way

vars ==
    <<pc, sessions, agentSession, agentMode, sessionIDSeq, disk, out,
      lineNo, curLine, pending, payload, turn, log, runErr, chats, faults, wr>>

\* ProcessCallbacks: which hooks are set, and whose they are
Callbacks(impl, onMsg, onCall, onResult, should, onWarning) ==
    [impl |-> impl, OnAssistantMessage |-> onMsg, OnToolCall |-> onCall,
     OnToolResult |-> onResult, ShouldExecuteTool |-> should, OnWarning |-> onWarning]

\* the callbacks handleSessionPrompt builds
AcpCallbacks == Callbacks("acp", TRUE, TRUE, TRUE, TRUE, TRUE)

\* the callbacks Terminal.processTurn builds
TerminalCallbacks == Callbacks("terminal", TRUE, TRUE, TRUE, TRUE, TRUE)

NoCallbacks == Callbacks("none", FALSE, FALSE, FALSE, FALSE, FALSE)

NoMessage == Message("", <<>>, <<>>)

\* no line has been read yet
NoLine == [whole |-> "none", parts |-> 0]

\* the locals of ProcessUserInput and of its caller; start and rounds record
\* where the turn and each of its assistant messages began in the history
NoTurn ==
    [sid |-> NoId, reqId |-> Null, cb |-> NoCallbacks, initial |-> FALSE,
     userInput |-> <<>>, assistantResponse |-> NoMessage, ti |-> 0, toolResultMessages |-> <<>>,
     round |-> 0, start |-> 0, rounds |-> <<>>, result |-> "none"]

Event(ev, call, text, n) ==
    [ev |-> ev, call |-> call, text |-> text, n |-> n]

StartupId == NamedId("default")

StoredId == NamedId("old")

GhostId == NamedId("ghost")

\* the session main builds at startup: new, with the values of the flags, saved
StartupSession(mode, acp) ==
    [SessionNew(StartupId) EXCEPT !.Mode = mode, !.Toolset = "default",
                                  !.ToolVerbosity = "none", !.Acp = acp]

\* a session an earlier run left in the session directory
StoredSession ==
    [SessionNew(StoredId) EXCEPT
        !.Messages = << Message("user", <<"q">>, <<>>),
                        Message("assistant", <<>>, <<CallRead>>),
                        ToolMessage(CallRead, <<"o", "k">>),
                        Message("assistant", <<"h", "i">>, <<>>) >>,
        !.Mode = ModeAuto, !.Toolset = "default", !.ToolVerbosity = "all"]

InitDisk(startup) ==
    SaveTo(SaveTo(<<>>, StoredSession), startup)

\* the goroutines that call writeFramedJSON: Run calls it from one, the
\* lock is there for any number of them
Writers == {"g1", "g2"}

\* a goroutine that is not in writeFramedJSON
NotWriting == [pc |-> "idle", data |-> <<>>, ret |-> "none"]

\* bufio.NewWriter(os.Stdout) before the first frame, the lock free
WriterIdle ==
    [lock |-> "", sessionsLock |-> "", buf |-> <<>>, stream |-> <<>>, err |-> FALSE,
     frames |-> 0, g |-> [w \in Writers |-> NotWriting]]

\* Run: a server with an empty registry
InitAcp ==
    /\ pc = "read"
    /\ agentMode \in {ModeAuto, ModePrompt}
    /\ agentSession = StartupSession(agentMode, TRUE)
    /\ sessions = <<>>
    /\ sessionIDSeq = 0
    /\ disk = InitDisk(agentSession)
    /\ out = <<>>
    /\ lineNo = 0
    /\ curLine = NoLine
    /\ pending = <<>>
    /\ payload = PayloadEmpty
    /\ turn = NoTurn
    /\ log = <<>>
    /\ runErr = "none"
    /\ chats = 0
    /\ faults = 0
    /\ wr = WriterIdle

(* ------------------------- ProcessUserInput ---------------------------- *)

\* HookFrames of a server that tags its notifications with the id of the
\* session it created last
HookFramesOfLatestSession(t, ev) ==
    LET sid == IF sessionIDSeq > 0 THEN SessionIdOf(1, sessionIDSeq) ELSE t.sid
    IN IF t.cb.impl # "acp" THEN <<>>
       ELSE IF ev.ev = "OnAssistantMessage" THEN <<AgentMessageChunk(sid, ev.text)>>
       ELSE IF ev.ev = "OnToolCall" THEN <<ToolCallNotification(sid, ev.call)>>
       ELSE IF ev.ev = "OnToolResult"
            THEN <<ToolResultNotification(sid, ev.call.ToolCallID, ev.text)>>
       ELSE <<>>

\* the frames the hooks of handleSessionPrompt write; the terminal's hooks print
HookFrames(t, ev) ==
    IF t.cb.impl # "acp" THEN <<>>
    ELSE IF ev.ev = "OnAssistantMessage" THEN <<AgentMessageChunk(t.sid, ev.text)>>
    ELSE IF ev.ev = "OnToolCall" THEN <<ToolCallNotification(t.sid, ev.call)>>
    ELSE IF ev.ev = "OnToolResult"
         THEN <<ToolResultNotification(t.sid, ev.call.ToolCallID, ev.text)>>
    ELSE <<>>

RECURSIVE FramesOf(_, _)
FramesOf(t, events) ==
    IF events = <<>> THEN <<>>
    ELSE HookFrames(t, Head(events)) \o FramesOf(t, Tail(events))

\* writeFramedJSON for each frame, in order, after the frames before
Emit(before, frames) ==
    out' = before \o frames

\* SetSession of an agent whose session every registry entry points to
SetSessionShared(s) ==
    /\ agentSession' = s
    /\ sessions' = IF turn.cb.impl = "acp"
                   THEN [k \in DOMAIN sessions |-> s]
                   ELSE sessions

\* Agent.Session is a pointer: under ACP it is the registry's entry of the session
SetSession(s) ==
    /\ agentSession' = s
    /\ sessions' = IF turn.cb.impl = "acp"
                   THEN [sessions EXCEPT ![turn.sid] = s]
                   ELSE sessions

\* ReturnFrames with the answer sent as a chunk after the response
ReturnFramesThenChunk(t, result) ==
    IF t.cb.impl # "acp" THEN <<>>
    ELSE IF result = "error"
         THEN <<ResponseError(t.reqId, -32603, "Internal error",
                              "error processing user input")>>
         ELSE <<ResponseOK(t.reqId, ResultEndTurn),
                AgentMessageChunk(t.sid, <<"h", "i">>)>>

\* what the caller of ProcessUserInput writes once it returns
ReturnFrames(t, result) ==
    IF t.cb.impl # "acp" THEN <<>>
    ELSE IF result = "error"
         THEN <<ResponseError(t.reqId, -32603, "Internal error",
                              "error processing user input")>>
         ELSE <<ResponseOK(t.reqId, ResultEndTurn)>>

\* ReturnPc of a caller that returns whenever ProcessUserInput fails
ReturnPcStops(t, result) ==
    IF result = "error" THEN "stopped" ELSE "read"

\* where the caller goes on: Terminal.Run returns when its initial prompt fails
ReturnPc(t, result) ==
    IF t.cb.impl = "terminal" /\ t.initial /\ result = "error"
    THEN "stopped" ELSE "read"

\* BeginTurn without the user message
BeginTurnNoUser(s, sid, reqId, cb, initial, userInput) ==
    /\ agentSession' = s
    /\ turn' = [NoTurn EXCEPT !.sid = sid, !.reqId = reqId, !.cb = cb,
                              !.initial = initial, !.userInput = userInput,
                              !.start = Len(s.Messages),
                              !.result = "running"]
    /\ log' = <<>>
    /\ pc' = "chat"

\* BeginTurn when the caller has added the user message already
BeginTurnDuplicate(s, sid, reqId, cb, initial, userInput) ==
    /\ agentSession' = AddMessage(AddMessage(s, Message("user", userInput, <<>>)),
                                  Message("user", userInput, <<>>))
    /\ turn' = [NoTurn EXCEPT !.sid = sid, !.reqId = reqId, !.cb = cb,
                              !.initial = initial, !.userInput = userInput,
                              !.start = Len(s.Messages),
                              !.result = "running"]
    /\ log' = <<>>
    /\ pc' = "chat"

\* BeginTurn of a loop that drops a user message left unanswered at the end
\* of the history before it appends the new one
BeginTurnOverUnanswered(s, sid, reqId, cb, initial, userInput) ==
    LET n == Len(s.Messages)
        kept == IF n > 0 /\ s.Messages[n].Role = "user"
                THEN [s EXCEPT !.Messages = SubSeq(@, 1, n - 1)] ELSE s
    IN /\ agentSession' = AddMessage(kept, Message("user", userInput, <<>>))
       /\ turn' = [NoTurn EXCEPT !.sid = sid, !.reqId = reqId, !.cb = cb,
                                 !.initial = initial, !.userInput = userInput,
                                 !.start = Len(kept.Messages),
                                 !.result = "running"]
       /\ log' = <<>>
       /\ pc' = "chat"

\* the first lines of ProcessUserInput: the user message is appended
BeginTurn(s, sid, reqId, cb, initial, userInput) ==
    /\ agentSession' = AddMessage(s, Message("user", userInput, <<>>))
    /\ turn' = [NoTurn EXCEPT !.sid = sid, !.reqId = reqId, !.cb = cb,
                              !.initial = initial, !.userInput = userInput,
                              !.start = Len(s.Messages),
                              !.result = "running"]
    /\ log' = <<>>
    /\ pc' = "chat"

\* ShouldExecuteToolHook of a server that asks its peer in prompt mode
ShouldExecuteToolHookAsks(cb, mode, answer) ==
    IF mode = ModePrompt THEN answer ELSE TRUE

\* the ShouldExecuteTool hook: the ACP server always answers yes, the
\* terminal asks the user in prompt mode and answers yes in auto mode
ShouldExecuteToolHook(cb, mode, answer) ==
    IF cb.impl = "acp" THEN TRUE
    ELSE IF mode = ModePrompt THEN answer
    ELSE TRUE

\* GateAsked of a loop that consults the hook in either mode
GateAskedInAnyMode(cb, mode) == cb.ShouldExecuteTool

\* the confirmation gate: the hook is consulted in prompt mode, when it is set
GateAsked(cb, mode) ==
    mode = ModePrompt /\ cb.ShouldExecuteTool

\* ToolResultText with the bare error of a failed call
ToolResultTextRaw(shouldExecute, toolCall, exec) ==
    IF ~shouldExecute THEN StrUserDenied ELSE exec.text

\* ToolResultText with the tool's answer for a denied call
ToolResultTextNoDenial(shouldExecute, toolCall, exec) ==
    IF exec.err THEN FormatToolError(toolCall.Name, exec.text) ELSE exec.text

\* the result text of one call: a denial, the tool's output, or the error text
ToolResultText(shouldExecute, toolCall, exec) ==
    IF ~shouldExecute THEN StrUserDenied
    ELSE IF exec.err THEN FormatToolError(toolCall.Name, exec.text)
    ELSE exec.text

\* ToolIteration of a loop that announces a call once it has been executed
ToolIterationCallLast(cb, mode, toolCall, answer, outcome) ==
    LET asked == GateAsked(cb, mode)
        shouldExecute == IF asked THEN ShouldExecuteToolHook(cb, mode, answer) ELSE TRUE
        exec == ExecuteToolCall(toolCall, outcome)
        toolResult == ToolResultText(shouldExecute, toolCall, exec)
    IN [events |->
            (IF asked
             THEN <<Event("ShouldExecuteTool", toolCall,
                          IF shouldExecute THEN <<"y">> ELSE <<"n">>, 0)>>
             ELSE <<>>)
         \o (IF ~shouldExecute THEN <<>>
             ELSE IF exec.executed
             THEN <<Event("Execute", toolCall, exec.text, IF exec.err THEN 1 ELSE 0)>>
             ELSE <<Event("NotFound", toolCall, exec.text, 1)>>)
         \o (IF cb.OnToolCall THEN <<Event("OnToolCall", toolCall, <<>>, 0)>> ELSE <<>>)
         \o (IF cb.OnToolResult
             THEN <<Event("OnToolResult", toolCall, toolResult, 0)>> ELSE <<>>),
        msg |-> ToolMessage(toolCall, toolResult)]

\* one iteration of the loop over the tool calls: the events it causes, in
\* order, and the tool-role message it builds. An Execute event is a call of
\* Tool.Execute with what it returned (n = 1 for an error); a NotFound event
\* is a call that no available tool answers to
ToolIteration(cb, mode, toolCall, answer, outcome) ==
    LET asked == GateAsked(cb, mode)
        shouldExecute == IF asked THEN ShouldExecuteToolHook(cb, mode, answer) ELSE TRUE
        exec == ExecuteToolCall(toolCall, outcome)
        toolResult == ToolResultText(shouldExecute, toolCall, exec)
    IN [events |->
            (IF cb.OnToolCall THEN <<Event("OnToolCall", toolCall, <<>>, 0)>> ELSE <<>>)
         \o (IF asked
             THEN <<Event("ShouldExecuteTool", toolCall,
                          IF shouldExecute THEN <<"y">> ELSE <<"n">>, 0)>>
             ELSE <<>>)
         \o (IF ~shouldExecute THEN <<>>
             ELSE IF exec.executed
             THEN <<Event("Execute", toolCall, exec.text, IF exec.err THEN 1 ELSE 0)>>
             ELSE <<Event("NotFound", toolCall, exec.text, 1)>>)
         \o (IF cb.OnToolResult
             THEN <<Event("OnToolResult", toolCall, toolResult, 0)>> ELSE <<>>),
        msg |-> ToolMessage(toolCall, toolResult)]

\* AddMessages keeping the last result of a batch only
AddMessagesLastOnly(s, msgs) ==
    IF msgs = <<>> THEN s ELSE AddMessage(s, msgs[Len(msgs)])

\* the messages of a batch are added to the history at once, in order
RECURSIVE AddMessages(_, _)
AddMessages(s, msgs) ==
    IF msgs = <<>> THEN s
    ELSE AddMessages(AddMessage(s, Head(msgs)), Tail(msgs))

\* ChatEvent of a loop that hands over the messages of the current turn only
ChatEventTurnOnly(s) ==
    Event("Chat", NoCall, <<>>, Len(s.Messages) - turn.start)

\* the call of LLMClient.Chat with the whole history
ChatEvent(s) ==
    Event("Chat", NoCall, <<>>, Len(s.Messages))

\* OnAssistantMessage is fired for a non-empty content, when the hook is set
AssistantEvents(cb, msg) ==
    IF msg.Content # <<>> /\ cb.OnAssistantMessage
    THEN <<Event("OnAssistantMessage", NoCall, msg.Content, 0)>>
    ELSE <<>>

\* a call of Session.Save on a history of n messages, and whether it succeeded
SaveEvent(s, saveOk) ==
    Event("Save", NoCall, IF saveOk THEN <<"o", "k">> ELSE <<"e", "r", "r">>,
          Len(s.Messages))

\* FinalEvents of a loop that drops the error of Save
FinalEventsSilent(cb, s, saveOk) == <<SaveEvent(s, saveOk)>>

\* the end of a turn: Save is called, and its failure is reported to OnWarning
FinalEvents(cb, s, saveOk) ==
    <<SaveEvent(s, saveOk)>>
    \o (IF ~saveOk /\ cb.OnWarning THEN <<Event("OnWarning", NoCall, <<>>, 0)>> ELSE <<>>)

\* the session files after the calls of Save among events, each made on
\* session s; a failed write is taken to leave the file as it was
DiskAfter(files, s, events) ==
    IF \E i \in 1..Len(events) : events[i].ev = "Save" /\ events[i].text = <<"o", "k">>
    THEN SaveTo(files, s) ELSE files

\* BatchEndEvents of a loop that saves the session after each batch
BatchEndEventsSaving(cb, s) == <<SaveEvent(s, TRUE)>>

\* what the loop does with the session file once a batch of tool results is
\* appended: nothing, the loop goes on to the next call of the LLM
BatchEndEvents(cb, s) == <<>>

\* LoopAfterBatch of a loop that returns after one batch
LoopAfterBatchReturns == "read"

\* where the loop goes on after a batch: to the next call of the LLM
LoopAfterBatch == "chat"

\* the round the assistant message s.Messages[Len] opens
RoundOf(s, msg) ==
    [at |-> Len(s.Messages) + 1, n |-> Len(msg.ToolCalls)]

\* the LLM fails: ProcessUserInput returns the error
ChatFails ==
    /\ pc = "chat"
    /\ turn' = [turn EXCEPT !.result = "error"]
    /\ log' = Append(log, ChatEvent(agentSession))
    /\ Emit(out, ReturnFrames(turn, "error"))
    /\ pc' = ReturnPc(turn, "error")
    /\ runErr' = IF pc' = "stopped" THEN "error" ELSE runErr
    /\ chats' = chats + 1
    /\ UNCHANGED <<sessions, agentSession, agentMode, wr, sessionIDSeq, disk,
                   lineNo, curLine, pending, payload, faults>>

\* the LLM answers without tool calls: the message is appended, the session is
\* saved and ProcessUserInput returns nil
ChatFinal ==
    /\ pc = "chat"
    /\ \E msg \in ChatReplies, saveOk \in BOOLEAN :
        LET s1 == AddMessage(agentSession, msg)
            events == <<ChatEvent(agentSession)>> \o AssistantEvents(turn.cb, msg)
                      \o FinalEvents(turn.cb, s1, saveOk)
        IN /\ msg.ToolCalls = <<>>
           /\ saveOk \/ faults < MaxFaults
           /\ faults' = IF saveOk THEN faults ELSE faults + 1
           /\ SetSession(s1)
           /\ disk' = DiskAfter(disk, s1, events)
           /\ log' = log \o events
           /\ turn' = [turn EXCEPT !.assistantResponse = msg, !.result = "ok",
                                   !.rounds = Append(@, RoundOf(agentSession, msg))]
           /\ Emit(out, FramesOf(turn, events) \o ReturnFrames(turn, "ok"))
    /\ pc' = "read"
    /\ chats' = chats + 1
    /\ UNCHANGED <<agentMode, wr, sessionIDSeq, lineNo, curLine, pending, payload, runErr>>

\* the LLM requests tools: the message is appended and the batch is begun
ChatTools ==
    /\ pc = "chat"
    /\ chats + 1 < MaxChats
    /\ \E msg \in ChatReplies :
        /\ msg.ToolCalls # <<>>
        /\ LET s1 == AddMessage(agentSession, msg)
               events == <<ChatEvent(agentSession)>> \o AssistantEvents(turn.cb, msg)
           IN /\ SetSession(s1)
              /\ log' = log \o events
              /\ turn' = [turn EXCEPT !.assistantResponse = msg, !.ti = 1,
                                      !.toolResultMessages = <<>>,
                                      !.round = @ + 1,
                                      !.rounds = Append(@, RoundOf(agentSession, msg))]
              /\ Emit(out, FramesOf(turn, events))
    /\ pc' = "tool"
    /\ chats' = chats + 1
    /\ UNCHANGED <<agentMode, wr, sessionIDSeq, disk, lineNo, curLine, pending, payload, runErr, faults>>

\* one tool call of the batch; after the last one the results are appended
ToolCallStep ==
    /\ pc = "tool"
    /\ \E answer \in BOOLEAN, outcome \in ExecuteOutcomes :
        LET toolCall == turn.assistantResponse.ToolCalls[turn.ti]
            it == ToolIteration(turn.cb, agentMode, toolCall, answer, outcome)
            msgs == Append(turn.toolResultMessages, it.msg)
            last == turn.ti = Len(turn.assistantResponse.ToolCalls)
            s1 == AddMessages(agentSession, msgs)
            events == it.events \o (IF last THEN BatchEndEvents(turn.cb, s1) ELSE <<>>)
        IN /\ log' = log \o events
           /\ disk' = DiskAfter(disk, s1, events)
           /\ Emit(out, FramesOf(turn, events))
           /\ IF last
              THEN /\ SetSession(s1)
                   /\ turn' = [turn EXCEPT !.ti = 0, !.toolResultMessages = <<>>]
                   /\ pc' = LoopAfterBatch
              ELSE /\ turn' = [turn EXCEPT !.ti = @ + 1, !.toolResultMessages = msgs]
                   /\ pc' = "tool"
                   /\ UNCHANGED <<sessions, agentSession>>
    /\ UNCHANGED <<agentMode, wr, sessionIDSeq, lineNo, curLine, pending, payload, runErr, chats, faults>>

(* --------------------------- the ACP server ---------------------------- *)

\* the clock values time.Now().UnixNano() may give
Times == {1}

\* the prompts a peer sends
Prompts == { <<TextBlock(<<"2", "+", "2", "?">>)>> }

\* the session ids a peer may name: registered ones, stored ones, an unknown one
KnownIds == (DOMAIN sessions) \cup (DOMAIN disk) \cup {GhostId}

\* the payloads of a line that fits the reader's buffer
Payloads(n) ==
    { PayloadEmpty, PayloadInvalid, PayloadArray, PayloadNull, PayloadMistyped(<<n>>),
      PayloadRequest(<<n>>, "initialize", ParamsAbsent),
      PayloadRequest(<<n>>, "session/new", ParamsAbsent),
      PayloadRequest(<<n>>, "session/cancel", ParamsAbsent),
      PayloadRequest(<<n>>, "session/load", ParamsMistyped),
      PayloadRequest(<<n>>, "session/prompt", ParamsMistyped) }
    \cup { PayloadRequest(<<n>>, "session/load", ParamsObject(sid, <<>>)) :
             sid \in KnownIds }
    \cup { PayloadRequest(<<n>>, "session/prompt", ParamsObject(sid, prompt)) :
             sid \in KnownIds, prompt \in Prompts }

\* json.Unmarshal(payload, &req) in Run
UnmarshalRequest(bytes) ==
    [err |-> ~(bytes.json \in {"null", "object"} /\ bytes.typed),
     ID |-> bytes.id, Method |-> bytes.method, Params |-> bytes.params]

\* what the bytes of a whole line are: empty, a request envelope, or neither
LineKind(p) ==
    IF p.json = "empty" THEN "empty"
    ELSE IF UnmarshalRequest(p).err THEN "invalid"
    ELSE "request"

\* the lines a peer may send as line n: what the whole line is, and the payloads
\* readFramedMessage returns for it. ReadLine returns a line longer than the
\* reader's buffer in parts, and the isPrefix result that tells so is dropped:
\* a long line, a request or not, is read as two parts that do not parse
Lines(n) ==
    { [whole |-> LineKind(p), frags |-> <<p>>] : p \in Payloads(n) }
    \cup { [whole |-> k, frags |-> <<PayloadInvalid, PayloadInvalid>>] :
             k \in {"invalid", "request"} }

\* the line being processed: what it is, and in how many parts it is read
LineInfo(l) ==
    [whole |-> l.whole, parts |-> Len(l.frags)]

\* readFramedMessage: the next payload, the payloads left of its line, the
\* number of its line, what the line is, and the frames written for it so far
Incoming ==
    IF pending # <<>>
    THEN { [p |-> Head(pending), rest |-> Tail(pending), line |-> lineNo,
            info |-> curLine, out |-> out] }
    ELSE IF lineNo < MaxLines
    THEN { [p |-> Head(l.frags), rest |-> Tail(l.frags), line |-> lineNo + 1,
            info |-> LineInfo(l), out |-> <<>>] : l \in Lines(lineNo + 1) }
    ELSE {}

\* Take of a server that reads on while a request is being processed
TakeAnytime(in) ==
    /\ pc \in {"read", "chat", "tool"}
    /\ pending' = in.rest
    /\ lineNo' = in.line
    /\ curLine' = in.info
    /\ payload' = in.p

\* a payload is taken from the input; the locals of the last turn are gone
Take(in) ==
    /\ pc = "read"
    /\ pending' = in.rest
    /\ lineNo' = in.line
    /\ curLine' = in.info
    /\ payload' = in.p

Idle ==
    /\ turn' = NoTurn
    /\ log' = <<>>
    /\ pc' = "read"

\* NextSessionID that builds the id from the clock alone
NextSessionIDOfClock(ts, seq) == SessionIdOf(ts, 0)

\* nextSessionID: "sess_" + timestamp + "_" + the incremented counter
NextSessionID(ts, seq) == SessionIdOf(ts, seq + 1)

\* Register that keeps the entry the registry has under id
RegisterKeepExisting(reg, id, s) ==
    [k \in (DOMAIN reg) \cup {id} |-> IF k \in DOMAIN reg THEN reg[k] ELSE s]

\* the registry with session s under id
Register(reg, id, s) ==
    [k \in (DOMAIN reg) \cup {id} |-> IF k = id THEN s ELSE reg[k]]

\* ReplayMessage with a chunk for an assistant message of empty content too
ReplayMessageAlwaysChunk(sid, msg) ==
    IF msg.Role = "user" THEN <<UserMessageChunk(sid, msg.Content)>>
    ELSE IF msg.Role = "assistant"
    THEN <<AgentMessageChunk(sid, msg.Content)>>
         \o [i \in 1..Len(msg.ToolCalls) |-> ToolCallNotification(sid, msg.ToolCalls[i])]
    ELSE IF msg.Role = "tool" /\ Len(msg.ToolCalls) > 0
    THEN <<ToolResultNotification(sid, msg.ToolCalls[1].ToolCallID, msg.Content)>>
    ELSE <<>>

\* ReplayMessage of a replay that leaves out the tool calls of the assistant
ReplayMessageNoToolCalls(sid, msg) ==
    IF msg.Role = "user" THEN <<UserMessageChunk(sid, msg.Content)>>
    ELSE IF msg.Role = "assistant"
    THEN (IF msg.Content # <<>> THEN <<AgentMessageChunk(sid, msg.Content)>> ELSE <<>>)
    ELSE IF msg.Role = "tool" /\ Len(msg.ToolCalls) > 0
    THEN <<ToolResultNotification(sid, msg.ToolCalls[1].ToolCallID, msg.Content)>>
    ELSE <<>>

\* the notifications session/load writes for one message of the history
ReplayMessage(sid, msg) ==
    IF msg.Role = "user" THEN <<UserMessageChunk(sid, msg.Content)>>
    ELSE IF msg.Role = "assistant"
    THEN (IF msg.Content # <<>> THEN <<AgentMessageChunk(sid, msg.Content)>> ELSE <<>>)
         \o [i \in 1..Len(msg.ToolCalls) |-> ToolCallNotification(sid, msg.ToolCalls[i])]
    ELSE IF msg.Role = "tool" /\ Len(msg.ToolCalls) > 0
    THEN <<ToolResultNotification(sid, msg.ToolCalls[1].ToolCallID, msg.Content)>>
    ELSE <<>>

\* Replay from the last message to the first
RECURSIVE ReplayBackwards(_, _)
ReplayBackwards(sid, msgs) ==
    IF msgs = <<>> THEN <<>>
    ELSE ReplayBackwards(sid, Tail(msgs)) \o ReplayMessage(sid, Head(msgs))

RECURSIVE Replay(_, _)
Replay(sid, msgs) ==
    IF msgs = <<>> THEN <<>>
    ELSE ReplayMessage(sid, Head(msgs)) \o Replay(sid, Tail(msgs))

\* RunResult without the case of io.EOF
RunResultAlwaysError(readErr) == "error"

\* what Run returns when readFramedMessage fails: nil for io.EOF, else the error
RunResult(readErr) ==
    IF readErr = "eof" THEN "nil" ELSE "error"

\* a read that failed, in place of a line
NoMoreLine(readErr) == [whole |-> readErr, parts |-> 0]

\* io.EOF: Run returns nil
ReadEOF ==
    /\ pc = "read" /\ pending = <<>>
    /\ pc' = "stopped" /\ runErr' = RunResult("eof")
    /\ curLine' = NoMoreLine("eof")
    /\ turn' = NoTurn /\ log' = <<>>
    /\ UNCHANGED <<sessions, agentSession, agentMode, wr, sessionIDSeq, disk, out,
                   lineNo, pending, payload, chats, faults>>

\* any other read error: Run returns it
ReadError ==
    /\ pc = "read" /\ pending = <<>>
    /\ pc' = "stopped" /\ runErr' = RunResult("error")
    /\ curLine' = NoMoreLine("error")
    /\ turn' = NoTurn /\ log' = <<>>
    /\ UNCHANGED <<sessions, agentSession, agentMode, wr, sessionIDSeq, disk, out,
                   lineNo, pending, payload, chats, faults>>

\* EmptyPayload of a server that answers an empty line with an error
EmptyPayloadAnswered ==
    \E in \in Incoming :
        /\ Take(in) /\ in.p.json = "empty"
        /\ Idle
        /\ Emit(in.out, <<ResponseError(Null, -32600, "Invalid Request", "")>>)
        /\ UNCHANGED <<sessions, agentSession, agentMode, wr, sessionIDSeq, disk,
                       runErr, chats, faults>>

\* len(payload) == 0: nothing to process
EmptyPayload ==
    \E in \in Incoming :
        /\ Take(in) /\ in.p.json = "empty"
        /\ Idle
        /\ out' = in.out
        /\ UNCHANGED <<sessions, agentSession, agentMode, wr, sessionIDSeq, disk,
                       runErr, chats, faults>>

\* the payload does not parse as a jsonrpcRequest: parse error, with a nil id
ParseError ==
    \E in \in Incoming :
        /\ Take(in) /\ in.p.json # "empty" /\ UnmarshalRequest(in.p).err
        /\ Emit(in.out, <<ResponseError(Null, -32700, "Parse error", "")>>)
        /\ Idle
        /\ UNCHANGED <<sessions, agentSession, agentMode, wr, sessionIDSeq, disk, runErr,
                       chats, faults>>

\* the request of a payload that parses
Parsed(in, method) ==
    /\ in.p.json # "empty"
    /\ ~UnmarshalRequest(in.p).err
    /\ UnmarshalRequest(in.p).Method = method

Methods == {"initialize", "session/new", "session/load", "session/prompt"}

\* MethodNotFoundError without the id of the request
MethodNotFoundNoId(id) ==
    ResponseError(Null, -32601, "Method not found", "")

\* the answer of the default case
MethodNotFoundError(id) ==
    ResponseError(id, -32601, "Method not found", "")

\* the default case of the dispatch
MethodNotFound ==
    \E in \in Incoming :
        /\ Take(in)
        /\ in.p.json # "empty" /\ ~UnmarshalRequest(in.p).err
        /\ UnmarshalRequest(in.p).Method \notin Methods
        /\ Emit(in.out, <<MethodNotFoundError(UnmarshalRequest(in.p).ID)>>)
        /\ Idle
        /\ UNCHANGED <<sessions, agentSession, agentMode, wr, sessionIDSeq, disk, runErr,
                       chats, faults>>

\* handleInitialize
HandleInitialize ==
    \E in \in Incoming :
        /\ Take(in) /\ Parsed(in, "initialize")
        /\ Emit(in.out, <<ResponseOK(UnmarshalRequest(in.p).ID, ResultInitialize)>>)
        /\ Idle
        /\ UNCHANGED <<sessions, agentSession, agentMode, wr, sessionIDSeq, disk, runErr,
                       chats, faults>>

\* NewAcpSession without the metadata of the agent's session
NewAcpSessionBlank(sid, agentSess) == SessionNew(sid)

\* the session of session/new: empty, with the metadata of the agent's session
NewAcpSession(sid, agentSess) ==
    [SessionNew(sid) EXCEPT !.Mode = agentSess.Mode, !.Toolset = agentSess.Toolset,
                            !.ToolVerbosity = agentSess.ToolVerbosity,
                            !.Acp = agentSess.Acp]

\* HandleSessionNew of a server that saves the session it makes
HandleSessionNewSaving ==
    \E in \in Incoming, ts \in Times :
        LET sid == NextSessionID(ts, sessionIDSeq)
        IN /\ Take(in) /\ Parsed(in, "session/new")
           /\ sessionIDSeq' = sessionIDSeq + 1
           /\ sessions' = Register(sessions, sid, NewAcpSession(sid, agentSession))
           /\ disk' = SaveTo(disk, NewAcpSession(sid, agentSession))
           /\ Emit(in.out, <<ResponseOK(UnmarshalRequest(in.p).ID, ResultSessionId(sid))>>)
           /\ Idle
           /\ UNCHANGED <<agentSession, agentMode, wr, runErr, chats, faults>>

\* handleSessionNew: an id is made, the session is registered and the id returned
HandleSessionNew ==
    \E in \in Incoming, ts \in Times :
        LET sid == NextSessionID(ts, sessionIDSeq)
        IN /\ Take(in) /\ Parsed(in, "session/new")
           /\ sessionIDSeq' = sessionIDSeq + 1
           /\ sessions' = Register(sessions, sid, NewAcpSession(sid, agentSession))
           /\ Emit(in.out, <<ResponseOK(UnmarshalRequest(in.p).ID, ResultSessionId(sid))>>)
           /\ Idle
           /\ UNCHANGED <<agentSession, agentMode, wr, disk, runErr, chats, faults>>

\* handleSessionNew when session.New fails (the session directory cannot be made)
HandleSessionNewFails ==
    \E in \in Incoming :
        /\ Take(in) /\ Parsed(in, "session/new")
        /\ faults < MaxFaults
        /\ faults' = faults + 1
        /\ sessionIDSeq' = sessionIDSeq + 1
        /\ Emit(in.out, <<ResponseError(UnmarshalRequest(in.p).ID, -32603, "Internal error",
                                "failed to create session")>>)
        /\ Idle
        /\ UNCHANGED <<sessions, agentSession, agentMode, wr, disk, runErr, chats>>

\* SessionNotFound with the code of an internal error
SessionNotFoundInternal(id) ==
    ResponseError(id, -32603, "Internal error", "session not found")

\* the answer to a session/load whose session.Load fails
SessionNotFound(id) ==
    ResponseError(id, -32602, "Invalid params", "session not found")

\* handleSessionLoad: the session is read from its file, registered and replayed
HandleSessionLoad ==
    \E in \in Incoming :
        LET req == UnmarshalRequest(in.p)
            p == DecodeParams(req.Params)
            sess == SessionLoad(disk, p.SessionID)
        IN /\ Take(in) /\ Parsed(in, "session/load")
           /\ ~p.err
           /\ p.SessionID \in DOMAIN disk
           /\ sessions' = Register(sessions, p.SessionID, sess)
           /\ Emit(in.out,
                   Replay(p.SessionID, sess.Messages) \o <<ResponseOK(req.ID, ResultNull)>>)
           /\ Idle
           /\ UNCHANGED <<agentSession, agentMode, wr, sessionIDSeq, disk, runErr,
                          chats, faults>>

\* handleSessionLoad when the params do not decode, or session.Load fails: the
\* file does not exist, or it cannot be read
HandleSessionLoadFails ==
    \E in \in Incoming, readable \in BOOLEAN :
        LET req == UnmarshalRequest(in.p)
            p == DecodeParams(req.Params)
        IN /\ Take(in) /\ Parsed(in, "session/load")
           /\ p.err \/ p.SessionID \notin DOMAIN disk \/ ~readable
           /\ readable \/ faults < MaxFaults
           /\ faults' = IF readable THEN faults ELSE faults + 1
           /\ Emit(in.out, <<IF p.err
                     THEN ResponseError(req.ID, -32603, "Internal error", "unmarshal error")
                     ELSE SessionNotFound(req.ID)>>)
           /\ Idle
           /\ UNCHANGED <<sessions, agentSession, agentMode, wr, sessionIDSeq, disk,
                          runErr, chats>>

\* UnknownSessionId with the code of an internal error
UnknownSessionIdInternal(id) ==
    ResponseError(id, -32603, "Internal error", "unknown sessionId")

\* the answer to a prompt for a session that is not in the registry
UnknownSessionId(id) ==
    ResponseError(id, -32602, "Invalid params", "unknown sessionId")

\* handleSessionPrompt up to the first call of the LLM: the session is looked
\* up, the text of the prompt is extracted and ProcessUserInput is entered
HandleSessionPrompt ==
    \E in \in Incoming :
        LET req == UnmarshalRequest(in.p)
            p == DecodeParams(req.Params)
        IN /\ Take(in) /\ Parsed(in, "session/prompt")
           /\ ~p.err
           /\ p.SessionID \in DOMAIN sessions
           /\ chats < MaxChats
           /\ BeginTurn(sessions[p.SessionID], p.SessionID, req.ID, AcpCallbacks,
                        FALSE, ExtractUserText(p.Prompt))
           /\ sessions' = [sessions EXCEPT ![p.SessionID] = agentSession']
           /\ out' = in.out
           /\ UNCHANGED <<agentMode, wr, sessionIDSeq, disk, runErr, chats, faults>>

\* handleSessionPrompt when the params do not decode or the session is unknown
HandleSessionPromptFails ==
    \E in \in Incoming :
        LET req == UnmarshalRequest(in.p)
            p == DecodeParams(req.Params)
        IN /\ Take(in) /\ Parsed(in, "session/prompt")
           /\ p.err \/ p.SessionID \notin DOMAIN sessions
           /\ Emit(in.out, <<IF p.err
                     THEN ResponseError(req.ID, -32603, "Internal error", "unmarshal error")
                     ELSE UnknownSessionId(req.ID)>>)
           /\ Idle
           /\ UNCHANGED <<sessions, agentSession, agentMode, wr, sessionIDSeq, disk, runErr,
                       chats, faults>>

\* one step of the ACP server
Next ==
    \/ ReadEOF
    \/ ReadError
    \/ EmptyPayload
    \/ ParseError
    \/ MethodNotFound
    \/ HandleInitialize
    \/ HandleSessionNew
    \/ HandleSessionNewFails
    \/ HandleSessionLoad
    \/ HandleSessionLoadFails
    \/ HandleSessionPrompt
    \/ HandleSessionPromptFails
    \/ ChatFails
    \/ ChatFinal
    \/ ChatTools
    \/ ToolCallStep

Spec == InitAcp /\ [][Next]_vars

(* ----------------------- the terminal front-end ------------------------ *)

StrQuit == <<"/", "q", "u", "i", "t">>

StrExit == <<"/", "e", "x", "i", "t">>

\* the lines a user types, and the initial prompt of the command line
TerminalInputs ==
    { <<" ">>, StrQuit, StrExit, <<" ", "2", "+", "2", "?">> }

InitialPrompts ==
    { <<>>, <<"h", "e", "y">> }

\* main in terminal mode: the agent works on the session of the command line
InitTerminal ==
    /\ pc = "start"
    /\ agentMode \in {ModeAuto, ModePrompt}
    /\ agentSession = StartupSession(agentMode, FALSE)
    /\ sessions = <<>>
    /\ sessionIDSeq = 0
    /\ disk = InitDisk(agentSession)
    /\ out = <<>>
    /\ lineNo = 0
    /\ curLine = NoLine
    /\ pending = <<>>
    /\ payload = PayloadEmpty
    /\ turn = NoTurn
    /\ log = <<>>
    /\ runErr = "none"
    /\ chats = 0
    /\ faults = 0
    /\ wr = WriterIdle

\* Terminal.Run: an initial prompt, when there is one, is processed first
TerminalStart ==
    /\ pc = "start"
    /\ \E initialPrompt \in InitialPrompts :
        IF initialPrompt # <<>>
        THEN BeginTurn(agentSession, NoId, Null, TerminalCallbacks, TRUE, initialPrompt)
        ELSE /\ pc' = "read"
             /\ UNCHANGED <<agentSession, turn, log>>
    /\ UNCHANGED <<sessions, agentMode, wr, sessionIDSeq, disk, out, lineNo, curLine,
                   pending, payload, runErr, chats, faults>>

\* a line of the user: a blank line is skipped, /quit and /exit end the
\* session, anything else is a turn
TerminalLine ==
    /\ pc = "read"
    /\ lineNo < MaxLines
    /\ chats < MaxChats
    /\ lineNo' = lineNo + 1
    /\ \E text \in TerminalInputs :
        LET userInput == TrimSpace(text)
        IN IF userInput = <<>>
           THEN /\ Idle
                /\ UNCHANGED <<agentSession, runErr>>
           ELSE IF userInput = StrQuit \/ userInput = StrExit
           THEN /\ pc' = "stopped" /\ runErr' = "nil"
                /\ turn' = NoTurn /\ log' = <<>>
                /\ UNCHANGED agentSession
           ELSE /\ BeginTurn(agentSession, NoId, Null, TerminalCallbacks, FALSE, userInput)
                /\ UNCHANGED runErr
    /\ UNCHANGED <<sessions, agentMode, wr, sessionIDSeq, disk, out, curLine, pending,
                   payload, chats, faults>>

\* scanner.Scan returns false: the end of the input, or a read error
TerminalEOF ==
    /\ pc = "read"
    /\ pc' = "stopped"
    /\ runErr' \in {"nil", "error"}
    /\ turn' = NoTurn /\ log' = <<>>
    /\ UNCHANGED <<sessions, agentSession, agentMode, wr, sessionIDSeq, disk, out,
                   lineNo, curLine, pending, payload, chats, faults>>

\* one step of the terminal front-end
TermNext ==
    \/ TerminalStart
    \/ TerminalLine
    \/ TerminalEOF
    \/ ChatFails
    \/ ChatFinal
    \/ ChatTools
    \/ ToolCallStep

TermSpec == InitTerminal /\ [][TermNext]_vars

(* --------------------------- writeFramedJSON --------------------------- *)

\* the bytes json.Marshal gives for frame f, len of them; byte k of frame f
\* is <<f, k, len>>
FrameData(f, len) == [k \in 1..len |-> <<f, k, len>>]

\* the byte "\n"
Newline == <<0, 0, 0>>

\* the lengths of the frames, below, at and above the size of the buffer
DataLens == {1, BufSize, BufSize + 1}

\* a Write of the file under StdoutWriter: all of bytes, or on a failure the
\* first j of them and the error, which bufio keeps
Underlying(w, bytes, ok, j) ==
    IF ok THEN [w EXCEPT !.stream = @ \o bytes]
    ELSE [w EXCEPT !.stream = @ \o SubSeq(bytes, 1, j), !.err = TRUE]

\* bufio.Writer.Flush: the bytes that were written leave the buffer
BufioFlush(w, ok, j) ==
    IF w.err \/ w.buf = <<>> THEN w
    ELSE LET n == IF j < Len(w.buf) THEN j ELSE 0
         IN [Underlying(w, w.buf, ok, n) EXCEPT
               !.buf = IF ok THEN <<>> ELSE SubSeq(@, n + 1, Len(@))]

\* bufio.Writer.Write and WriteString: what does not fit the buffer is written
\* through, directly when the buffer is empty, else after the buffer is filled
\* and flushed; the rest is kept in the buffer
RECURSIVE BufioWrite(_, _, _, _)
BufioWrite(w, bytes, ok, j) ==
    IF w.err THEN w
    ELSE IF Len(bytes) > BufSize - Len(w.buf)
    THEN IF w.buf = <<>>
         THEN Underlying(w, bytes, ok, IF j < Len(bytes) THEN j ELSE 0)
         ELSE LET n == BufSize - Len(w.buf)
                  filled == [w EXCEPT !.buf = @ \o SubSeq(bytes, 1, n)]
              IN BufioWrite(BufioFlush(filled, ok, j),
                            SubSeq(bytes, n + 1, Len(bytes)), ok, j)
    ELSE [w EXCEPT !.buf = @ \o bytes]

\* LockFree of a writer without the lock
LockFreeAlways(w) == TRUE

\* writeLock.Lock() returns when no goroutine holds the lock
LockFree(w) == w.lock = ""

\* the writer with goroutine g at position pos
At(w, g, pos) == [w EXCEPT !.g[g].pc = pos]

\* the deferred Unlock is next: the call returns ret
Returning(w, g, ret) == [w EXCEPT !.g[g].pc = "unlock", !.g[g].ret = ret]

\* the variables of the server, which a call of writeFramedJSON leaves alone
serverVars ==
    <<pc, sessions, agentSession, agentMode, sessionIDSeq, disk, out,
      lineNo, curLine, pending, payload, turn, log, runErr, chats, faults>>

\* json.Marshal(obj): a response or a notification always serializes
WriteMarshal(g) ==
    /\ wr.g[g].pc \in {"idle", "done"}
    /\ wr.frames < MaxFrames
    /\ \E len \in DataLens :
        wr' = [wr EXCEPT !.frames = @ + 1,
                         !.g[g] = [pc |-> "lock", data |-> FrameData(wr.frames + 1, len),
                                   ret |-> "none"]]
    /\ UNCHANGED serverVars

\* s.writeLock.Lock()
WriteLock(g) ==
    /\ wr.g[g].pc = "lock"
    /\ LockFree(wr)
    /\ wr' = At([wr EXCEPT !.lock = g], g, "data")
    /\ UNCHANGED serverVars

\* s.StdoutWriter.Write(data)
WriteData(g) ==
    /\ wr.g[g].pc = "data"
    /\ \E ok \in BOOLEAN, j \in 0..BufSize :
        LET w == BufioWrite(wr, wr.g[g].data, ok, j)
        IN wr' = IF w.err THEN Returning(w, g, "error") ELSE At(w, g, "newline")
    /\ UNCHANGED serverVars

\* s.StdoutWriter.WriteString("\n")
WriteNewline(g) ==
    /\ wr.g[g].pc = "newline"
    /\ \E ok \in BOOLEAN, j \in 0..BufSize :
        LET w == BufioWrite(wr, <<Newline>>, ok, j)
        IN wr' = IF w.err THEN Returning(w, g, "error") ELSE At(w, g, "flush")
    /\ UNCHANGED serverVars

\* s.StdoutWriter.Flush()
WriteFlush(g) ==
    /\ wr.g[g].pc = "flush"
    /\ \E ok \in BOOLEAN, j \in 0..BufSize :
        LET w == BufioFlush(wr, ok, j)
        IN wr' = Returning(w, g, IF w.err THEN "error" ELSE "nil")
    /\ UNCHANGED serverVars

\* the deferred s.writeLock.Unlock(), and the return
WriteUnlock(g) ==
    /\ wr.g[g].pc = "unlock"
    /\ wr' = At([wr EXCEPT !.lock = ""], g, "done")
    /\ UNCHANGED serverVars

\* one step of a call of writeFramedJSON
WriterNext ==
    \/ \E g \in Writers : WriteMarshal(g)
    \/ \E g \in Writers : WriteLock(g)
    \/ \E g \in Writers : WriteData(g)
    \/ \E g \in Writers : WriteNewline(g)
    \/ \E g \in Writers : WriteFlush(g)
    \/ \E g \in Writers : WriteUnlock(g)

WriterSpec == InitAcp /\ [][WriterNext]_vars

(* ------------------ the locks of a request, step by step --------------- *)

\* the goroutine of Run, the only one that handles requests
RunGoroutine == "g1"

\* RegistryAccess of a handler that releases the lock when it returns
RegistryAccessDeferred == <<"Lock", "sessions">>

\* s.sessionsLock.Lock(), the access to s.sessions, s.sessionsLock.Unlock()
RegistryAccess == <<"Lock", "sessions", "Unlock">>

RECURSIVE Repeat(_, _)
Repeat(steps, n) == IF n = 0 THEN <<>> ELSE steps \o Repeat(steps, n - 1)

\* the part of ProcessUserInput for one answer of the LLM, with the hooks of
\* handleSessionPrompt: the call of the LLM, the chunk of a content, and per
\* tool call the tool_call frame, the execution and the tool_result frame;
\* after an answer without tool calls the session is saved
RoundSteps(msg) ==
    <<"Chat">>
    \o (IF msg.Content # <<>> THEN <<"write">> ELSE <<>>)
    \o Repeat(<<"write", "Execute", "write">>, Len(msg.ToolCalls))
    \o (IF msg.ToolCalls = <<>> THEN <<"Save">> ELSE <<>>)

\* what Run and a handler do for one request, as far as locks, frames and
\* calls out of the server go
RequestSteps ==
    { <<"write">>,                                         \* initialize, -32700, -32601
      <<"session.New">> \o RegistryAccess \o <<"write">>,   \* session/new
      <<"session.Load", "write">>,                         \* session/load, no file
      RegistryAccess \o <<"write">>,                        \* session/prompt, unknown id
      RegistryAccess \o <<"Chat", "write">> }               \* session/prompt, the LLM fails
    \cup { <<"session.Load">> \o RegistryAccess \o Repeat(<<"write">>, n) \o <<"write">> :
             n \in 0..(MaxFrames - 1) }
    \cup { RegistryAccess \o RoundSteps(last) \o <<"write">> : last \in ChatReplies }
    \cup { RegistryAccess \o RoundSteps(first) \o RoundSteps(last) \o <<"write">> :
             first \in ChatReplies, last \in ChatReplies }

\* the number of frames the steps write
Writes(steps) == Len(SelectSeq(steps, LAMBDA op : op = "write"))

\* a request has been read and dispatched; both locks are free
InitLock ==
    /\ pc = "handler"
    /\ pending \in { steps \in RequestSteps : Writes(steps) <= MaxFrames }
    /\ wr = WriterIdle
    /\ agentMode = ModeAuto
    /\ agentSession = StartupSession(ModeAuto, TRUE)
    /\ sessions = <<>>
    /\ sessionIDSeq = 0
    /\ disk = <<>>
    /\ out = <<>>
    /\ lineNo = 1
    /\ curLine = NoLine
    /\ payload = PayloadEmpty
    /\ turn = NoTurn
    /\ log = <<>>
    /\ runErr = "none"
    /\ chats = 0
    /\ faults = 0

\* the variables a step of the handler leaves alone
handlerVars ==
    <<sessions, agentSession, agentMode, sessionIDSeq, disk, out, lineNo, curLine,
      payload, turn, log, runErr, chats, faults>>

\* the handler is at step op, outside writeFramedJSON
NextStepIs(op) ==
    /\ pc = "handler" /\ pending # <<>> /\ Head(pending) = op
    /\ wr.g[RunGoroutine].pc = "idle"

\* s.sessionsLock.Lock(): returns when the lock is free
SessionsLock ==
    /\ NextStepIs("Lock")
    /\ wr.sessionsLock = ""
    /\ wr' = [wr EXCEPT !.sessionsLock = RunGoroutine]
    /\ pending' = Tail(pending)
    /\ UNCHANGED <<pc, handlerVars>>

\* s.sessionsLock.Unlock()
SessionsUnlock ==
    /\ NextStepIs("Unlock")
    /\ wr' = [wr EXCEPT !.sessionsLock = ""]
    /\ pending' = Tail(pending)
    /\ UNCHANGED <<pc, handlerVars>>

\* a step that takes no lock: the access to the registry, a call of the LLM,
\* of a tool, or of the session package
OtherStep ==
    /\ \E op \in {"sessions", "Chat", "Execute", "Save", "session.New", "session.Load"} :
         NextStepIs(op)
    /\ pending' = Tail(pending)
    /\ UNCHANGED <<pc, wr, handlerVars>>

\* a frame is to be written: writeFramedJSON is entered
WriteCalled ==
    /\ NextStepIs("write")
    /\ WriteMarshal(RunGoroutine)

\* writeFramedJSON, entered, goes on
WriteGoesOn ==
    /\ pc = "handler"
    /\ \/ WriteLock(RunGoroutine)
       \/ WriteData(RunGoroutine)
       \/ WriteNewline(RunGoroutine)
       \/ WriteFlush(RunGoroutine)
       \/ WriteUnlock(RunGoroutine)

\* writeFramedJSON has returned; its result is dropped or returned
WriteReturned ==
    /\ pc = "handler" /\ pending # <<>> /\ Head(pending) = "write"
    /\ wr.g[RunGoroutine].pc = "done"
    /\ wr' = [wr EXCEPT !.g[RunGoroutine] = NotWriting]
    /\ pending' = Tail(pending)
    /\ UNCHANGED <<pc, handlerVars>>

\* the handler returns to the read loop
HandlerReturns ==
    /\ pc = "handler" /\ pending = <<>>
    /\ pc' = "read"
    /\ UNCHANGED <<wr, pending, handlerVars>>

LockNext ==
    \/ SessionsLock
    \/ SessionsUnlock
    \/ OtherStep
    \/ WriteCalled
    \/ WriteGoesOn
    \/ WriteReturned
    \/ HandlerReturns

LockSpec == InitLock /\ [][LockNext]_vars

(* ------------------- ProcessUserInput called directly ------------------ *)

\* the ProcessCallbacks a caller may pass: each hook is set or nil
CallbackSets ==
    { Callbacks("library", onMsg, onCall, onResult, should, onWarning) :
        onMsg \in BOOLEAN, onCall \in BOOLEAN, onResult \in BOOLEAN,
        should \in BOOLEAN, onWarning \in BOOLEAN }

\* an agent as agent.New leaves it, in either mode, before any input
InitLoop ==
    /\ pc = "call"
    /\ agentMode \in {ModeAuto, ModePrompt}
    /\ agentSession = StartupSession(agentMode, FALSE)
    /\ sessions = <<>>
    /\ sessionIDSeq = 0
    /\ disk = InitDisk(agentSession)
    /\ out = <<>>
    /\ lineNo = 0
    /\ curLine = NoLine
    /\ pending = <<>>
    /\ payload = PayloadEmpty
    /\ turn = NoTurn
    /\ log = <<>>
    /\ runErr = "none"
    /\ chats = 0
    /\ faults = 0
    /\ wr = WriterIdle

\* agent.ProcessUserInput(ctx, "hey", callbacks)
CallProcessUserInput ==
    /\ pc \in {"call", "read"}
    /\ chats < MaxChats
    /\ \E cb \in CallbackSets :
        BeginTurn(agentSession, NoId, Null, cb, FALSE, <<"h", "e", "y">>)
    /\ UNCHANGED <<sessions, agentMode, wr, sessionIDSeq, disk, out, lineNo, curLine,
                   pending, payload, runErr, chats, faults>>

LoopNext ==
    \/ CallProcessUserInput
    \/ ChatFails
    \/ ChatFinal
    \/ ChatTools
    \/ ToolCallStep

LoopSpec == InitLoop /\ [][LoopNext]_vars

(* ---------------------------- Save and Load ---------------------------- *)

\* what a command wrote: string(output) keeps bytes that are not UTF-8
CommandOutput == <<"o", BadByte, "k">>

\* messages a session may hold before it is saved
HeldMessages ==
    { Message("user", <<"q">>, <<>>),
      Message("assistant", <<"h", "i">>, <<>>),
      Message("assistant", <<>>, <<CallRead>>),
      ToolMessage(CallRead, <<"o", "k">>),
      ToolMessage(CallRead, CommandOutput) }

RECURSIVE SeqsUpTo(_, _)
SeqsUpTo(S, n) ==
    IF n = 0 THEN {<<>>}
    ELSE LET shorter == SeqsUpTo(S, n - 1)
         IN shorter \cup {Append(q, m) : q \in shorter, m \in S}

\* sessions held in memory: any history, any metadata
HeldSessions ==
    { [StartupSession(mode, acp) EXCEPT !.Messages = msgs, !.ToolVerbosity = verbosity] :
        mode \in {ModeAuto, ModePrompt}, acp \in BOOLEAN,
        verbosity \in {"none", "all"}, msgs \in SeqsUpTo(HeldMessages, MaxMessages) }

\* a session in memory and an empty session directory
InitSaveLoad ==
    /\ pc = "held"
    /\ agentMode = ModeAuto
    /\ agentSession \in HeldSessions
    /\ sessions = <<>>
    /\ sessionIDSeq = 0
    /\ disk = <<>>
    /\ out = <<>>
    /\ lineNo = 0
    /\ curLine = NoLine
    /\ pending = <<>>
    /\ payload = PayloadEmpty
    /\ turn = NoTurn
    /\ log = <<>>
    /\ runErr = "none"
    /\ chats = 0
    /\ faults = 0
    /\ wr = WriterIdle

\* Session.Save
SaveStep ==
    /\ pc = "held"
    /\ disk' = SaveTo(disk, agentSession)
    /\ pc' = "saved"
    /\ UNCHANGED <<sessions, agentSession, agentMode, wr, sessionIDSeq, out, lineNo,
                   curLine, pending, payload, turn, log, runErr, chats, faults>>

\* session.Load of the same id; the session loaded is kept next to the one held
LoadStep ==
    /\ pc = "saved"
    /\ sessions' = Register(sessions, agentSession.Name,
                            SessionLoad(disk, agentSession.Name))
    /\ pc' = "loaded"
    /\ UNCHANGED <<disk, agentSession, agentMode, wr, sessionIDSeq, out, lineNo,
                   curLine, pending, payload, turn, log, runErr, chats, faults>>

SaveLoadNext ==
    \/ SaveStep
    \/ LoadStep

SaveLoadSpec == InitSaveLoad /\ [][SaveLoadNext]_vars

(* --------------------------- extractUserText --------------------------- *)

MaxBlocks == 3

StrHello == <<"H", "e", "l", "l", "o">>

StrWorld == <<"W", "o", "r", "l", "d">>

\* resource_link blocks: an external resource with all its metadata, a file
\* that can be read, and a file that cannot
ResourceLinks ==
    { [ContentBlock EXCEPT !.Type = "resource_link", !.Name = <<"w">>,
                           !.URI = <<"https://", "x">>, !.Title = <<"T">>,
                           !.Description = <<"D">>, !.MimeType = <<"m">>,
                           !.Size = <<12>>],
      [ContentBlock EXCEPT !.Type = "resource_link", !.Name = <<"a">>,
                           !.URI = <<SchemeFile, "/", "a">>],
      [ContentBlock EXCEPT !.Type = "resource_link", !.Name = <<"b">>,
                           !.URI = <<SchemeFile, "/", "b">>] }

\* the blocks of a prompt: text with and without surrounding space, blank
\* and empty text, resource links, and an image
PromptBlocks ==
    { TextBlock(StrHello), TextBlock(StrWorld), TextBlock(<<" ", "a", "\n">>),
      TextBlock(<<" ", "\n">>), TextBlock(<<>>),
      [ContentBlock EXCEPT !.Type = "image"] }
    \cup ResourceLinks

\* a session/prompt request with any blocks has been read
InitExtract ==
    /\ pc = "blocks"
    /\ payload \in { PayloadRequest(<<1>>, "session/prompt", ParamsObject(GhostId, blocks)) :
                      blocks \in SeqsUpTo(PromptBlocks, MaxBlocks) }
    /\ agentMode = ModeAuto
    /\ agentSession = StartupSession(ModeAuto, TRUE)
    /\ sessions = <<>>
    /\ sessionIDSeq = 0
    /\ disk = <<>>
    /\ out = <<>>
    /\ lineNo = 1
    /\ curLine = NoLine
    /\ pending = <<>>
    /\ turn = NoTurn
    /\ log = <<>>
    /\ runErr = "none"
    /\ chats = 0
    /\ faults = 0
    /\ wr = WriterIdle

\* userText := extractUserText(p.Prompt)
ExtractStep ==
    /\ pc = "blocks"
    /\ turn' = [turn EXCEPT !.userInput = ExtractUserText(DecodeParams(payload.params).Prompt)]
    /\ pc' = "text"
    /\ UNCHANGED <<sessions, agentSession, agentMode, wr, sessionIDSeq, disk, out,
                   lineNo, curLine, pending, payload, log, runErr, chats, faults>>

ExtractSpec == InitExtract /\ [][ExtractStep]_vars

(* ----------------------------- properties ------------------------------ *)

\* the backend and the tools answer every call made to them: a call of the LLM
\* returns or fails, a tool call returns
FairSpec ==
    /\ InitTerminal /\ [][TermNext]_vars
    /\ WF_vars(ChatFails \/ ChatFinal \/ ChatTools)
    /\ WF_vars(ToolCallStep)

\* the history of the session the turn works on
Messages == agentSession.Messages

Last(seq) == seq[Len(seq)]

\* the user message a turn begins with
UserMessage == Message("user", turn.userInput, <<>>)

\* the rounds of the turn whose batch of tool calls is done
DoneRounds ==
    IF pc = "tool" THEN SubSeq(turn.rounds, 1, Len(turn.rounds) - 1) ELSE turn.rounds

\* the assistant message of round r is followed by exactly one tool-role
\* message per call, each with the id of its call, in the order of the calls
RoundAnswered(r) ==
    /\ r.at + r.n <= Len(Messages)
    /\ Messages[r.at].Role = "assistant"
    /\ Len(Messages[r.at].ToolCalls) = r.n
    /\ \A i \in 1..r.n :
        /\ Messages[r.at + i].Role = "tool"
        /\ Len(Messages[r.at + i].ToolCalls) = 1
        /\ Messages[r.at + i].ToolCalls[1].ToolCallID
             = Messages[r.at].ToolCalls[i].ToolCallID
    /\ (r.at + r.n < Len(Messages)) => (Messages[r.at + r.n + 1].Role # "tool")

\* the session file of the turn's session, as far as it exists
PersistedMessages ==
    IF agentSession.path \in DOMAIN disk THEN disk[agentSession.path].Messages ELSE <<>>

\* what became of one tool call: it was executed, it named no available tool,
\* or it was denied
IsOutcome(e) ==
    \/ e.ev \in {"Execute", "NotFound"}
    \/ e.ev = "ShouldExecuteTool" /\ e.text = <<"n">>

IsToolMessage(m) == m.Role = "tool"

Outcomes == SelectSeq(log, IsOutcome)

\* the tool-role messages of the turn so far, appended or still to be appended
ToolMessages ==
    SelectSeq(SubSeq(Messages, turn.start + 1, Len(Messages)), IsToolMessage)
    \o turn.toolResultMessages

\* two consecutive LLM invocations of the turn
Consecutive(i, j) ==
    /\ i < j
    /\ log[i].ev = "Chat" /\ log[j].ev = "Chat"
    /\ \A k \in (i + 1)..(j - 1) : log[k].ev # "Chat"

\* C1: a round of N >= 1 tool calls is followed, before the next call of the
\* LLM, by exactly N tool-role messages, the i-th carrying one ToolCall with the
\* id of the i-th call, whatever became of the call
C1_RoundHasOneToolMessagePerCall ==
    /\ \A k \in 1..Len(DoneRounds) : RoundAnswered(DoneRounds[k])
    /\ (pc = "chat" /\ turn.rounds # <<>>)
         => (Last(turn.rounds).at + Last(turn.rounds).n = Len(Messages))

\* C1: a round of two calls is done, the first denied and the second failed
C1_Witness ==
    /\ pc = "chat" /\ turn.rounds # <<>>
    /\ Last(turn.rounds).n = 2
    /\ Len(Messages) = Last(turn.rounds).at + 2
    /\ Messages[Last(turn.rounds).at + 1].Content = StrUserDenied
    /\ Contains(Messages[Last(turn.rounds).at + 2].Content, StrError)

C4_ToolFailureIsNotFatal ==
    (turn.result # "none")
      => /\ Len(Outcomes) = Len(ToolMessages)
         /\ \A k \in 1..Len(Outcomes) :
              (Outcomes[k].ev \in {"Execute", "NotFound"} /\ Outcomes[k].n = 1)
                => /\ ToolMessages[k].Role = "tool"
                   /\ ToolMessages[k].Content
                        = StrErrorExecutingTool \o Outcomes[k].call.Name
                          \o StrColonSpace \o Outcomes[k].text
                   /\ Contains(ToolMessages[k].Content, StrError)
                   /\ ToolMessages[k].ToolCalls[1].ToolCallID
                        = Outcomes[k].call.ToolCallID
         /\ (turn.result = "error") => (Last(log).ev = "Chat")

\* C4: a turn has ended well after one call named a missing tool and another
\* call failed
C4_Witness ==
    /\ turn.result = "ok"
    /\ \E i \in DOMAIN log, j \in DOMAIN log :
        /\ log[i].ev = "NotFound"
        /\ log[j].ev = "Execute" /\ log[j].n = 1

\* a session/prompt has completed without the backend requesting a tool
TextOnly ==
    /\ pc = "read" /\ turn.result = "ok" /\ turn.cb.impl = "acp"
    /\ Len(turn.rounds) = 1

\* the text of the prompt of the request read last
PromptText ==
    ExtractUserText(DecodeParams(UnmarshalRequest(payload).Params).Prompt)

\* C5, as stated: after a text-only session/prompt the history of the session
\* has grown by the user message and one assistant message with a non-empty
\* content and no tool calls
C5_TextOnlyNonEmptyAnswer ==
    TextOnly
      => LET msgs == sessions[turn.sid].Messages
         IN /\ Len(msgs) = turn.start + 2
            /\ msgs[turn.start + 1] = Message("user", PromptText, <<>>)
            /\ msgs[turn.start + 2].Role = "assistant"
            /\ msgs[turn.start + 2].Content # <<>>
            /\ msgs[turn.start + 2].ToolCalls = <<>>

\* C5: after a text-only session/prompt the history of the session has grown
\* by the user message with the text of the prompt and by the assistant
\* message the backend returned, which has no tool calls; its content is the
\* backend's, empty or not
C5_TextOnlyAppendsUserAndAnswer ==
    TextOnly
      => LET msgs == sessions[turn.sid].Messages
         IN /\ Len(msgs) = turn.start + 2
            /\ msgs[turn.start + 1] = Message("user", PromptText, <<>>)
            /\ msgs[turn.start + 2].Role = "assistant"
            /\ msgs[turn.start + 2] = turn.assistantResponse
            /\ msgs[turn.start + 2].ToolCalls = <<>>

\* C5: a text-only session/prompt has completed with an empty answer
C5_Witness ==
    /\ TextOnly
    /\ Len(sessions[turn.sid].Messages) = turn.start + 2
    /\ Last(sessions[turn.sid].Messages).Content = <<>>

\* C6: after a successful turn the messages it appended are, in order, the user
\* message, then round by round the assistant message the backend returned
\* followed at once by the tool-role messages of its calls; the last round has
\* no calls and its assistant message ends the history
C6_TurnHistoryInOrder ==
    (turn.result = "ok")
      => /\ Len(Messages) > turn.start
         /\ Messages[turn.start + 1] = UserMessage
         /\ turn.rounds # <<>>
         /\ turn.rounds[1].at = turn.start + 2
         /\ \A k \in 1..(Len(turn.rounds) - 1) :
              /\ turn.rounds[k].n >= 1
              /\ turn.rounds[k + 1].at = turn.rounds[k].at + turn.rounds[k].n + 1
         /\ \A k \in 1..Len(turn.rounds) : RoundAnswered(turn.rounds[k])
         /\ Last(turn.rounds).n = 0
         /\ Last(turn.rounds).at = Len(Messages)
         /\ Last(Messages) = turn.assistantResponse

\* C6: a turn has ended well after a round of two tool calls
C6_Witness ==
    /\ turn.result = "ok"
    /\ Len(turn.rounds) = 2
    /\ turn.rounds[1].n = 2
    /\ Len(Messages) = turn.start + 5

\* ProcessUserInput is running
InTurn == pc \in {"chat", "tool"}

C8_DeniedCallIsNotExecuted ==
    (turn.result # "none")
      => /\ \A i \in DOMAIN log :
              (log[i].ev = "ShouldExecuteTool" /\ log[i].text = <<"n">>)
                => /\ agentMode = ModePrompt
                   /\ i < Len(log)
                   /\ log[i + 1] = Event("OnToolResult", log[i].call, StrUserDenied, 0)
         /\ Len(Outcomes) = Len(ToolMessages)
         /\ \A k \in 1..Len(Outcomes) :
              (Outcomes[k].ev = "ShouldExecuteTool")
                => /\ ToolMessages[k].Role = "tool"
                   /\ ToolMessages[k].Content = StrUserDenied
                   /\ ToolMessages[k].ToolCalls[1].ToolCallID
                        = Outcomes[k].call.ToolCallID
         /\ \A k \in 1..Len(DoneRounds) : RoundAnswered(DoneRounds[k])

\* C8: the first call of a round was denied and the second one was executed
C8_Witness ==
    /\ pc = "chat" /\ agentMode = ModePrompt
    /\ \E i \in DOMAIN log, j \in DOMAIN log :
        /\ i < j
        /\ log[i].ev = "ShouldExecuteTool" /\ log[i].text = <<"n">>
        /\ log[j].ev = "Execute"
    /\ Len(ToolMessages) = 2
    /\ ToolMessages[1].Content = StrUserDenied

\* C9: once a line that is not a request envelope is read to its end, exactly
\* one frame has been written for it, a response with the code -32700
C9_OneParseErrorPerInvalidLine ==
    (pc = "read" /\ pending = <<>> /\ curLine.whole = "invalid")
      => /\ Len(out) = 1
         /\ out[1] = ResponseError(Null, -32700, "Parse error", "")

\* a payload is read in this step
TakesPayload ==
    /\ pc = "read"
    /\ lineNo' # lineNo \/ pending' # pending

\* C10: a session/prompt that names a session which is not in the registry is
\* answered with one -32602 response and nothing else: no session and no
\* registry entry changes, no file is written, the LLM is not called and no
\* notification is written
C10_PromptForUnknownSession ==
    [][ (/\ TakesPayload
         /\ payload'.json # "empty"
         /\ ~UnmarshalRequest(payload').err
         /\ UnmarshalRequest(payload').Method = "session/prompt"
         /\ ~DecodeParams(UnmarshalRequest(payload').Params).err
         /\ DecodeParams(UnmarshalRequest(payload').Params).SessionID
              \notin DOMAIN sessions)
        => /\ out' = (IF pending # <<>> THEN out ELSE <<>>)
                     \o <<ResponseError(UnmarshalRequest(payload').ID, -32602,
                                        "Invalid params", "unknown sessionId")>>
           /\ UNCHANGED <<sessions, agentSession, disk, chats, sessionIDSeq>>
           /\ pc' = "read" /\ turn' = NoTurn /\ log' = <<>> ]_vars

\* C10: a prompt for an unknown session has been answered by a server whose
\* registry holds a session with messages
C10_Witness ==
    /\ pc = "read" /\ turn = NoTurn
    /\ payload.json = "object" /\ payload.typed
    /\ payload.method = "session/prompt"
    /\ payload.params.shape = "object"
    /\ payload.params.sessionId \notin DOMAIN sessions
    /\ Len(out) = 1 /\ out[1].code = -32602
    /\ \E sid \in DOMAIN sessions : sessions[sid].Messages # <<>>

\* a session/load has been answered with a result
LoadDone ==
    /\ pc = "read" /\ turn = NoTurn
    /\ payload.method = "session/load"
    /\ out # <<>>
    /\ Last(out).fr = "response" /\ Last(out).code = 0

\* the id a session/load names, and the messages of its file
LoadedId == payload.params.sessionId

StoredMessages == disk[LoadedId].Messages

RECURSIVE SumSeq(_)
SumSeq(ns) == IF ns = <<>> THEN 0 ELSE Head(ns) + SumSeq(Tail(ns))

\* the number of notifications the replay writes for message m
ReplayCount(m) ==
    IF m.Role = "user" THEN 1
    ELSE IF m.Role = "assistant"
    THEN (IF m.Content # <<>> THEN 1 ELSE 0) + Len(m.ToolCalls)
    ELSE IF m.Role = "tool" /\ Len(m.ToolCalls) > 0 THEN 1
    ELSE 0

ReplayCounts(msgs) == [i \in 1..Len(msgs) |-> ReplayCount(msgs[i])]

\* one notification per message, but only the tool calls of an assistant
\* message of empty content
OnePerMessageCounts(msgs) ==
    [i \in 1..Len(msgs) |->
        IF msgs[i].Role = "assistant" /\ msgs[i].Content = <<>>
        THEN Len(msgs[i].ToolCalls) ELSE 1]

\* the message the k-th notification of a replay belongs to, when message i
\* has counts[i] notifications
Owner(counts, k) ==
    CHOOSE i \in 1..Len(counts) :
        /\ SumSeq(SubSeq(counts, 1, i - 1)) < k
        /\ k <= SumSeq(SubSeq(counts, 1, i))

\* frame f is a notification of session sid that message m calls for
NotificationOf(f, sid, m) ==
    /\ f.fr = "notification" /\ f.sessionId = sid
    /\ \/ m.Role = "user" /\ f = Notification(sid, "user_message_chunk", NoCall, m.Content)
       \/ m.Role = "assistant" /\ m.Content # <<>>
          /\ f = Notification(sid, "agent_message_chunk", NoCall, m.Content)
       \/ m.Role = "assistant"
          /\ \E i \in 1..Len(m.ToolCalls) :
               f = Notification(sid, "tool_call", m.ToolCalls[i], <<>>)
       \/ m.Role = "tool" /\ Len(m.ToolCalls) > 0
          /\ f = Notification(sid, "tool_result",
                              ToolCall(m.ToolCalls[1].ToolCallID, <<>>, NilArgs), m.Content)

\* the frames of a replay are, in the order of the messages, notifications of
\* the messages, counts[i] of them for message i, and then the response
ReplayedInOrder(counts) ==
    /\ Len(out) = SumSeq(counts) + 1
    /\ Last(out) = ResponseOK(payload.id, ResultNull)
    /\ \A k \in 1..(Len(out) - 1) :
        NotificationOf(out[k], LoadedId, StoredMessages[Owner(counts, k)])

\* C11, as stated: a session/load of a session of K messages writes one
\* notification per message (for an assistant message of empty content, its
\* tool-call notifications only), in the order of the messages, before the
\* response
C11_OneNotificationPerMessage ==
    LoadDone => ReplayedInOrder(OnePerMessageCounts(StoredMessages))

\* C11: a session/load writes, message by message in the order of the file,
\* the notifications of each message: one for a user message, one for an
\* assistant message of non-empty content plus one per tool call of it, one
\* for a tool message; all of them come before the response, which is the
\* last frame. Their number is the sum over the messages, not the number of
\* messages
C11_ReplayInOrderBeforeResponse ==
    LoadDone => ReplayedInOrder(ReplayCounts(StoredMessages))

\* C11: a session is loaded whose file holds an assistant message with a
\* content and tool calls, so that more notifications than messages are written
C11_Witness ==
    /\ LoadDone
    /\ Len(out) - 1 > Len(StoredMessages)
    /\ \E i \in 1..Len(StoredMessages) :
        /\ StoredMessages[i].Role = "assistant"
        /\ StoredMessages[i].Content # <<>>
        /\ Len(StoredMessages[i].ToolCalls) = 2

\* the notifications of message m in a replay for session sid: a user chunk,
\* an agent chunk when the content is not empty and then a tool_call per
\* ToolCall, or a tool_result with the id of the message's ToolCall
NotificationsOf(sid, m) ==
    IF m.Role = "user"
    THEN <<Notification(sid, "user_message_chunk", NoCall, m.Content)>>
    ELSE IF m.Role = "assistant"
    THEN (IF m.Content = <<>> THEN <<>>
          ELSE <<Notification(sid, "agent_message_chunk", NoCall, m.Content)>>)
         \o [i \in 1..Len(m.ToolCalls) |->
               Notification(sid, "tool_call", m.ToolCalls[i], <<>>)]
    ELSE IF m.Role = "tool"
    THEN <<Notification(sid, "tool_result",
                        ToolCall(m.ToolCalls[1].ToolCallID, <<>>, NilArgs), m.Content)>>
    ELSE <<>>

RECURSIVE Flatten(_)
Flatten(seqs) == IF seqs = <<>> THEN <<>> ELSE Head(seqs) \o Flatten(Tail(seqs))

\* C12: the notifications of a session/load are exactly these, message by
\* message: one user_message_chunk with the content of a user message; for an
\* assistant message one agent_message_chunk if and only if its content is not
\* empty, then one tool_call per ToolCall in order; one tool_result with the id
\* of its ToolCall and its content for a tool message; nothing else
C12_ReplayNotificationsPerRole ==
    LoadDone
      => /\ \A i \in 1..Len(StoredMessages) :
              (StoredMessages[i].Role = "tool") => (Len(StoredMessages[i].ToolCalls) = 1)
         /\ SubSeq(out, 1, Len(out) - 1)
              = Flatten([i \in 1..Len(StoredMessages) |->
                           NotificationsOf(LoadedId, StoredMessages[i])])

\* C12: the session of an earlier run is loaded: a user message, an assistant
\* message of empty content with a tool call, a tool message and an answer
C12_Witness ==
    /\ LoadDone
    /\ LoadedId = StoredId
    /\ Len(out) = 5
    /\ out[1].update = "user_message_chunk"
    /\ out[2].update = "tool_call"
    /\ out[3].update = "tool_result"
    /\ out[4].update = "agent_message_chunk"

\* C13: a session/load whose session cannot be read from its file (there is
\* no file of that name, or the file cannot be read) is answered with one
\* -32602 response and nothing else: no notification is written and the
\* registry, an entry of that id included, stays as it was
C13_LoadOfMissingSession ==
    [][ (/\ TakesPayload
         /\ payload'.method = "session/load"
         /\ ~DecodeParams(payload'.params).err
         /\ \/ DecodeParams(payload'.params).SessionID \notin DOMAIN disk
            \/ faults' # faults)
        => /\ out' = (IF pending # <<>> THEN out ELSE <<>>)
                     \o <<ResponseError(payload'.id, -32602, "Invalid params",
                                        "session not found")>>
           /\ UNCHANGED <<sessions, agentSession, disk, sessionIDSeq>>
           /\ pc' = "read" ]_vars

\* C13: a load has failed for an id under which the registry holds a session
\* with messages
C13_Witness ==
    /\ pc = "read" /\ turn = NoTurn
    /\ payload.method = "session/load"
    /\ Len(out) = 1 /\ out[1].code = -32602
    /\ LoadedId \in DOMAIN sessions
    /\ sessions[LoadedId].Messages # <<>>

\* the events of the turn that the hooks of handleSessionPrompt turn into
\* notifications
IsHookEvent(e) == e.ev \in {"OnAssistantMessage", "OnToolCall", "OnToolResult"}

HookEvents == SelectSeq(log, IsHookEvent)

\* frame f is the session/update notification of hook event e
NotificationOfEvent(f, e) ==
    /\ f.fr = "notification" /\ f.sessionId = turn.sid
    /\ \/ e.ev = "OnAssistantMessage" /\ f.update = "agent_message_chunk"
          /\ f.text = e.text
       \/ e.ev = "OnToolCall" /\ f.update = "tool_call" /\ f.call = e.call
       \/ e.ev = "OnToolResult" /\ f.update = "tool_result"
          /\ f.call.ToolCallID = e.call.ToolCallID /\ f.text = e.text

\* a session/prompt has been answered after the LLM failed
PromptFailed ==
    turn.cb.impl = "acp" /\ turn.result = "error"

\* C14: when the LLM fails inside a session/prompt the server writes a -32603
\* response with the id of the request, after the notifications of the turn,
\* and does not stop: it is back at its read loop, where a request of any
\* method, a prompt for the same session included, is taken as ever
C14_LoopFailureIsAnInternalError ==
    PromptFailed
      => /\ pc = "read" /\ runErr = "none"
         /\ out # <<>>
         /\ Last(out) = ResponseError(turn.reqId, -32603, "Internal error",
                                      "error processing user input")
         /\ \A k \in 1..(Len(out) - 1) : out[k].fr = "notification"
         /\ turn.sid \in DOMAIN sessions
         /\ (lineNo < MaxLines)
              => /\ ENABLED HandleInitialize
                 /\ ENABLED HandleSessionNew
                 /\ ENABLED HandleSessionLoad
                 /\ ENABLED HandleSessionPromptFails
                 /\ ENABLED MethodNotFound
                 /\ ENABLED ParseError
                 /\ (chats < MaxChats)
                      => ENABLED (HandleSessionPrompt /\ turn'.sid = turn.sid)

\* C14: a prompt is answered with a result on a session whose prompt before
\* failed: its history holds the user message of the failed turn, unanswered
C14_Witness ==
    /\ pc = "read" /\ turn.cb.impl = "acp" /\ turn.result = "ok"
    /\ turn.start >= 1
    /\ Messages[turn.start].Role = "user"
    /\ Last(out) = ResponseOK(turn.reqId, ResultEndTurn)

\* C15: a session/prompt that succeeds is answered with stopReason "end_turn",
\* and the response is the last frame written for the request: the
\* notifications of the turn, one per hook event and in their order, are all
\* written before it; while the turn runs only notifications are written
C15_EndTurnResponseIsLast ==
    (turn.cb.impl = "acp" /\ turn.result \in {"running", "ok"})
      => LET n == Len(HookEvents)
         IN /\ \A k \in 1..n :
                 k <= Len(out) /\ NotificationOfEvent(out[k], HookEvents[k])
            /\ (turn.result = "running") => (Len(out) = n)
            /\ (turn.result = "ok")
                 => /\ Len(out) = n + 1
                    /\ out[n + 1].fr = "response"
                    /\ out[n + 1].id = turn.reqId
                    /\ out[n + 1].code = 0
                    /\ out[n + 1].result.kind = "stopReason"
                    /\ out[n + 1].result.text = "end_turn"

\* C15: a prompt has succeeded after a round of two tool calls: a chunk, two
\* tool_call and two tool_result notifications and the chunk of the answer
\* come before the response
C15_Witness ==
    /\ pc = "read" /\ turn.cb.impl = "acp" /\ turn.result = "ok"
    /\ Len(out) = 7
    /\ out[6].update = "agent_message_chunk"
    /\ out[7].fr = "response"

\* C17: Run returns nil when the read reports the end of the input and the
\* error when the read fails otherwise; the step that ends the loop writes no
\* frame and changes no session, and no step follows it
C17_ReadLoopEnds ==
    /\ []((pc = "stopped")
            => /\ curLine.whole \in {"eof", "error"}
               /\ (curLine.whole = "eof") => (runErr = "nil")
               /\ (curLine.whole = "error") => (runErr = "error"))
    /\ []((pc # "stopped") => (runErr = "none"))
    /\ [][ /\ pc # "stopped"
           /\ (pc' = "stopped")
                => /\ pc = "read"
                   /\ UNCHANGED <<out, sessions, agentSession, disk, lineNo,
                                  sessionIDSeq, chats>> ]_vars

\* C17: the server has stopped without an error at the end of the input, after
\* it answered a request
C17_Witness ==
    /\ pc = "stopped" /\ runErr = "nil" /\ curLine.whole = "eof"
    /\ lineNo >= 1 /\ out # <<>>

\* the methods of the dispatch
KnownMethods == {"initialize", "session/new", "session/load", "session/prompt"}

\* C18: a request of any other method is answered with one -32601 response
\* that carries the id of the request; no session and no registry entry
\* changes, and the server goes on reading
C18_UnknownMethod ==
    [][ (/\ TakesPayload
         /\ payload'.json # "empty"
         /\ ~UnmarshalRequest(payload').err
         /\ UnmarshalRequest(payload').Method \notin KnownMethods)
        => /\ out' = (IF pending # <<>> THEN out ELSE <<>>)
                     \o <<ResponseError(UnmarshalRequest(payload').ID, -32601,
                                        "Method not found", "")>>
           /\ UNCHANGED <<sessions, agentSession, disk, sessionIDSeq, chats, runErr>>
           /\ pc' = "read" ]_vars

\* C18: a session/cancel with an id has been answered by a server whose
\* registry holds a session
C18_Witness ==
    /\ pc = "read"
    /\ payload.method = "session/cancel"
    /\ payload.id # Null
    /\ Len(out) = 1 /\ out[1].code = -32601 /\ out[1].id = payload.id
    /\ sessions # <<>>

\* a session/new has been answered with a session id
NewDone ==
    /\ pc = "read" /\ turn = NoTurn
    /\ payload.method = "session/new"
    /\ out # <<>>
    /\ Last(out).fr = "response" /\ Last(out).code = 0

\* C19: session/new registers, under the id it answers with, a session without
\* messages whose mode, toolset, verbosity and protocol flag are those of the
\* agent's current session; the other entries of the registry stay, and a
\* session/prompt with that id is accepted
C19_SessionNew ==
    /\ [](NewDone
            => LET sid == Last(out).result.sessionId
               IN /\ Len(out) = 1
                  /\ out[1] = ResponseOK(payload.id, ResultSessionId(sid))
                  /\ sid \in DOMAIN sessions
                  /\ sessions[sid].Name = sid
                  /\ sessions[sid].Messages = <<>>
                  /\ sessions[sid].Mode = agentSession.Mode
                  /\ sessions[sid].Toolset = agentSession.Toolset
                  /\ sessions[sid].ToolVerbosity = agentSession.ToolVerbosity
                  /\ sessions[sid].Acp = agentSession.Acp
                  /\ (chats < MaxChats /\ lineNo < MaxLines)
                       => ENABLED (HandleSessionPrompt /\ turn'.sid = sid))
    /\ [][ (TakesPayload /\ payload'.method = "session/new" /\ faults' = faults)
            => /\ Cardinality(DOMAIN sessions') = Cardinality(DOMAIN sessions) + 1
               /\ \A k \in DOMAIN sessions : sessions'[k] = sessions[k]
               /\ UNCHANGED <<agentSession, disk>> ]_vars

\* C19: a session is made while the agent works on the session of an earlier
\* run, whose verbosity is not the one of the command line
C19_Witness ==
    /\ NewDone
    /\ agentSession.Name = StoredId
    /\ sessions[Last(out).result.sessionId].ToolVerbosity = "all"
    /\ Cardinality(DOMAIN sessions) >= 2

\* C20: a session/load that succeeds puts the session read from the file in
\* the registry under the id of the request, in place of the entry there was;
\* the other entries stay, and a session/prompt for the id begins on the
\* messages of the file
C20_LoadReplacesRegistryEntry ==
    /\ [](LoadDone
            => /\ LoadedId \in DOMAIN sessions
               /\ sessions[LoadedId].Messages = StoredMessages
               /\ sessions[LoadedId].Name = disk[LoadedId].Name
               /\ sessions[LoadedId].Mode = disk[LoadedId].Mode
               /\ (chats < MaxChats /\ lineNo < MaxLines)
                    => ENABLED (/\ HandleSessionPrompt
                                /\ turn'.sid = LoadedId
                                /\ turn'.start = Len(StoredMessages)
                                /\ SubSeq(agentSession'.Messages, 1, turn'.start)
                                     = StoredMessages))
    /\ [][ (/\ TakesPayload /\ payload'.method = "session/load"
            /\ out' # <<>> /\ out'[Len(out')].code = 0)
            => /\ \A k \in DOMAIN sessions :
                    (k # payload'.params.sessionId)
                      => (k \in DOMAIN sessions' /\ sessions'[k] = sessions[k])
               /\ UNCHANGED <<agentSession, disk>> ]_vars

\* C20: a session is loaded again after a prompt that failed: the entry the
\* agent still works on holds the unanswered message, the registry the
\* messages of the file
C20_Witness ==
    /\ LoadDone
    /\ agentSession.Name = LoadedId
    /\ Len(agentSession.Messages) > Len(StoredMessages)
    /\ sessions[LoadedId].Messages = StoredMessages

\* bytes is a sequence of whole frames: the bytes of each frame in order,
\* followed by exactly one newline
RECURSIVE WholeFrames(_)
WholeFrames(bytes) ==
    IF bytes = <<>> THEN TRUE
    ELSE LET f == bytes[1][1]
             len == bytes[1][3]
         IN /\ f # 0
            /\ Len(bytes) >= len + 1
            /\ \A k \in 1..len : bytes[k] = <<f, k, len>>
            /\ bytes[len + 1] = Newline
            /\ WholeFrames(SubSeq(bytes, len + 2, Len(bytes)))

\* bytes is a sequence of whole frames and then the first bytes of frame data
RECURSIVE WholeFramesThenPartOf(_, _)
WholeFramesThenPartOf(bytes, data) ==
    \/ WholeFrames(bytes)
    \/ \E n \in 1..Len(bytes) :
        /\ WholeFrames(SubSeq(bytes, 1, Len(bytes) - n))
        /\ n <= Len(data) + 1
        /\ SubSeq(bytes, Len(bytes) - n + 1, Len(bytes))
             = SubSeq(data \o <<Newline>>, 1, n)

\* the frame the holder of the lock is writing
HeldData == IF wr.lock = "" THEN <<>> ELSE wr.g[wr.lock].data

Loaded == sessions[agentSession.Name]

\* C21: Save followed by Load on the same session id yields the messages held
\* before saving, message by message in role, content and tool calls, and the
\* same mode, toolset, verbosity and protocol flag
C21_SaveLoadRoundTrip ==
    (pc = "loaded")
      => /\ Len(Loaded.Messages) = Len(agentSession.Messages)
         /\ \A i \in 1..Len(agentSession.Messages) :
              /\ Loaded.Messages[i].Role = agentSession.Messages[i].Role
              /\ Loaded.Messages[i].Content = agentSession.Messages[i].Content
              /\ Loaded.Messages[i].ToolCalls = agentSession.Messages[i].ToolCalls
         /\ Loaded.Mode = agentSession.Mode
         /\ Loaded.Toolset = agentSession.Toolset
         /\ Loaded.ToolVerbosity = agentSession.ToolVerbosity
         /\ Loaded.Acp = agentSession.Acp

\* the step works on a request that names a session: a step of a turn, or the
\* step that takes a session/prompt or a session/load with a session id
NamesSession ==
    \/ InTurn
    \/ /\ TakesPayload
       /\ payload'.json # "empty" /\ ~UnmarshalRequest(payload').err
       /\ payload'.method \in {"session/prompt", "session/load"}
       /\ payload'.params.shape = "object"

\* the session the step's request names
NamedSession ==
    IF InTurn THEN turn.sid ELSE DecodeParams(payload'.params).SessionID

\* C22: a step taken for a request that names session A, successful or
\* failed, leaves every other registered session registered, with the
\* messages and the metadata it had
C22_OtherSessionsUnchanged ==
    [][NamesSession
         => \A B \in DOMAIN sessions :
              (B # NamedSession) => /\ B \in DOMAIN sessions'
                                    /\ sessions'[B] = sessions[B]]_vars

\* C22: a turn on one session was aborted by a failure of the LLM after a
\* tool round, while another session is registered
C22_Witness ==
    /\ pc = "read" /\ turn.result = "error" /\ turn.round > 0
    /\ \E B \in DOMAIN sessions : B # turn.sid /\ sessions[B].Messages # <<>>

\* the responses among the frames written for the current line
Responses == SelectSeq(out, LAMBDA f : f.fr = "response")

\* C23: for every non-empty inbound line exactly one response frame is
\* written: never two while the line is processed, and one once the server
\* is ready for the next line
C23_OneResponsePerLine ==
    /\ Len(Responses) <= 1
    /\ (pc = "read" /\ pending = <<>> /\ curLine.whole \in {"invalid", "request"})
         => Len(Responses) = 1

\* the calls the backend requested in the turn so far, as announced to OnToolCall
RequestedCalls == SelectSeq(log, LAMBDA e : e.ev = "OnToolCall")

\* what a call that is resolved and executed leaves in the history: the
\* tool's output, or the text of the error of the call
ExecutedText(e) ==
    IF e.n = 1 THEN FormatToolError(e.call.Name, e.text) ELSE e.text

LineDone ==
    /\ pc = "read" /\ pending = <<>>
    /\ turn.result # "running"
    /\ (lineNo = 0) \/ (curLine.whole = "empty") \/ (Len(Responses) >= 1)

\* frame f is caused by the request read last
OfCurrentRequest(f) ==
    IF f.fr = "response" THEN f.id \in {payload.id, Null}
    ELSE f.sessionId = DecodeParams(payload.params).SessionID

\* C25: requests are processed one at a time, in the order of arrival. The
\* next line is read only when the current one is processed to its end, its
\* response written; while a line is processed frames are only appended, and
\* each of them is a frame of that line's request, so the frames of two
\* requests never interleave and the responses follow the order of the
\* requests
C25_OneRequestAtATime ==
    /\ [][(lineNo' # lineNo) => (LineDone /\ lineNo' = lineNo + 1)]_vars
    /\ [][(lineNo' = lineNo /\ pc # "stopped" /\ pc' # "stopped")
            => (Len(out) <= Len(out') /\ SubSeq(out', 1, Len(out)) = out)]_vars
    /\ [](\A i \in 1..Len(out) : OfCurrentRequest(out[i]))

\* C25: the third line is read after a line whose request ran a turn with a
\* tool round
C25_Witness ==
    /\ lineNo = 3 /\ pc = "read" /\ chats = 2
    /\ payload.method = "initialize"
    /\ Len(out) = 1 /\ out[1].id = <<3>>

\* where in the log the LLM was called
ChatIndexes ==
    SelectSeq([i \in 1..Len(log) |-> i], LAMBDA i : log[i].ev = "Chat")

\* the events of round k: those after its call of the LLM and before the next
Segment(k) ==
    SubSeq(log, ChatIndexes[k] + 1,
           IF k < Len(ChatIndexes) THEN ChatIndexes[k + 1] - 1 ELSE Len(log))

HookOf(ev, call) == [ev |-> ev, call |-> call]

\* the hooks of a round in the order the claim gives: the assistant message
\* if its content is not empty, then for each call OnToolCall and OnToolResult
ExpectedHooks(msg) ==
    (IF msg.Content # <<>> THEN <<HookOf("OnAssistantMessage", NoCall)>> ELSE <<>>)
    \o Flatten([i \in 1..Len(msg.ToolCalls) |->
                  <<HookOf("OnToolCall", msg.ToolCalls[i]),
                    HookOf("OnToolResult", msg.ToolCalls[i])>>])

\* the hooks among events, in order, each with its call
HooksIn(events) ==
    LET hooks == SelectSeq(events, IsHookEvent)
    IN [i \in 1..Len(hooks) |-> HookOf(hooks[i].ev, hooks[i].call)]

\* between OnToolCall and OnToolResult of a call come the gate, if it is
\* consulted, and then the execution, and nothing else
ExecutionBetweenHooks(seg) ==
    \A i \in 1..Len(seg) :
        /\ (seg[i].ev = "OnToolCall")
             => /\ i < Len(seg)
                /\ seg[i + 1].ev \in {"ShouldExecuteTool", "Execute", "NotFound"}
                /\ seg[i + 1].call = seg[i].call
        /\ (seg[i].ev = "ShouldExecuteTool")
             => /\ i > 1 /\ seg[i - 1].ev = "OnToolCall"
                /\ seg[i - 1].call = seg[i].call
                /\ i < Len(seg)
                /\ seg[i + 1].ev \in {"Execute", "NotFound", "OnToolResult"}
                /\ seg[i + 1].call = seg[i].call
        /\ (seg[i].ev \in {"Execute", "NotFound"})
             => /\ i > 1 /\ seg[i - 1].ev \in {"OnToolCall", "ShouldExecuteTool"}
                /\ seg[i - 1].call = seg[i].call
                /\ i < Len(seg) /\ seg[i + 1].ev = "OnToolResult"
                /\ seg[i + 1].call = seg[i].call

\* the events of round k are in the order of the claim, as far as the round
\* has come
RoundInOrder(k) ==
    IF k > Len(turn.rounds) THEN Segment(k) = <<>>
    ELSE LET msg == Messages[turn.rounds[k].at]
             expected == ExpectedHooks(msg)
             first == IF msg.Content # <<>> THEN 1 ELSE 0
             reached == IF k = Len(turn.rounds) /\ pc = "tool"
                        THEN first + 2 * (turn.ti - 1) ELSE Len(expected)
         IN /\ HooksIn(Segment(k)) = SubSeq(expected, 1, reached)
            /\ (first = 1) => /\ Segment(k)[1].ev = "OnAssistantMessage"
                              /\ Segment(k)[1].text = msg.Content
            /\ ExecutionBetweenHooks(Segment(k))

\* C26: in each round OnAssistantMessage is fired exactly when the content of
\* the assistant message is not empty, before any tool event; then for each
\* tool call in the order returned OnToolCall, the gate and the execution,
\* and OnToolResult of the same call, before OnToolCall of the next call;
\* under session/prompt the notifications agent_message_chunk, tool_call and
\* tool_result are written in that order
C26_EventsOfARoundInOrder ==
    (turn.cb.impl = "acp")
      => /\ \A k \in 1..Len(ChatIndexes) : RoundInOrder(k)
         /\ log # <<>> => log[1].ev = "Chat"
         /\ Len(HookEvents) <= Len(out)
         /\ \A k \in 1..Len(HookEvents) : NotificationOfEvent(out[k], HookEvents[k])

\* C26: a turn in prompt mode is done whose first round had a message with
\* text and two tool calls, and whose second round gave the answer
C26_Witness ==
    /\ turn.cb.impl = "acp" /\ turn.result = "ok" /\ agentMode = ModePrompt
    /\ Len(ChatIndexes) = 2
    /\ HooksIn(Segment(1))
         = << HookOf("OnAssistantMessage", NoCall),
              HookOf("OnToolCall", CallNope), HookOf("OnToolResult", CallNope),
              HookOf("OnToolCall", CallRead), HookOf("OnToolResult", CallRead) >>
    /\ HooksIn(Segment(2)) = << HookOf("OnAssistantMessage", NoCall) >>
    /\ Len(out) = 7

IsPrefix(a, b) == Len(a) <= Len(b) /\ SubSeq(b, 1, Len(a)) = a

\* the step enters ProcessUserInput for a session/prompt
EntersTurn == pc = "read" /\ pc' = "chat" /\ turn'.cb.impl = "acp"

\* C27: during ProcessUserInput the message list of the session is only
\* extended at its end: at every step of a turn, the first one included, the
\* list held before the step is a prefix of the list held after it, in the
\* agent's session and in the registry entry, on success and on failure alike
C27_HistoryIsAppendOnly ==
    /\ [][EntersTurn
            => /\ IsPrefix(sessions[turn'.sid].Messages, agentSession'.Messages)
               /\ sessions'[turn'.sid] = agentSession']_vars
    /\ [][InTurn
            => /\ IsPrefix(agentSession.Messages, agentSession'.Messages)
               /\ (turn.cb.impl = "acp")
                    => /\ IsPrefix(sessions[turn.sid].Messages,
                                   sessions'[turn.sid].Messages)
                       /\ sessions'[turn.sid] = agentSession']_vars

\* C27: a turn on a session that had a history failed after a round of two
\* tool calls: the history before the turn is followed by the user message,
\* the assistant message and the two tool results
C27_Witness ==
    /\ pc = "read" /\ turn.cb.impl = "acp" /\ turn.result = "error"
    /\ turn.start > 0
    /\ Len(Messages) = turn.start + 4
    /\ Messages[Len(Messages)].Role = "tool"

\* the number of messages the k-th LLM invocation of the turn received
Received(k) == log[ChatIndexes[k]].n

\* C28: every LLM invocation of a turn receives the whole message list of the
\* session as it stands when the call is made. The first one receives the
\* messages of the earlier turns and the new user message; each later one
\* receives in addition the assistant message of the round before and all
\* the tool-role messages of that round
C28_LLMReceivesWholeHistory ==
    /\ [][(chats' = chats + 1)
            => /\ Len(log') > Len(log)
               /\ log'[Len(log) + 1].ev = "Chat"
               /\ log'[Len(log) + 1].n = Len(agentSession.Messages)
               /\ IsPrefix(agentSession.Messages, agentSession'.Messages)]_vars
    /\ [](\A k \in 1..Len(ChatIndexes) :
            /\ Received(k) <= Len(Messages)
            /\ (k = 1) => /\ Received(k) = turn.start + 1
                          /\ Messages[Received(k)] = UserMessage
            /\ (k > 1) => LET r == turn.rounds[k - 1]
                          IN /\ r.n >= 1
                             /\ r.at = Received(k - 1) + 1
                             /\ Received(k) = r.at + r.n
                             /\ Messages[r.at].Role = "assistant"
                             /\ \A i \in 1..r.n : Messages[r.at + i].Role = "tool")

\* C28: the second invocation of a turn on a session with a history received
\* that history, the user message, the assistant message and two tool results
C28_Witness ==
    /\ Len(ChatIndexes) = 2
    /\ turn.start > 0
    /\ Received(1) = turn.start + 1
    /\ Received(2) = turn.start + 4

\* the session id the request read last names
RequestedSession == DecodeParams(payload.params).SessionID

\* C29: every session/update notification written while session/prompt or
\* session/load is handled for session S carries the session id S, which is
\* a registered session, and no request id; none is tagged with the id of
\* another session
C29_NotificationsCarryTheirSession ==
    \A i \in 1..Len(out) :
        (out[i].fr = "notification")
          => /\ payload.method \in {"session/prompt", "session/load"}
             /\ out[i].sessionId = RequestedSession
             /\ out[i].sessionId \in DOMAIN sessions
             /\ (turn.cb.impl = "acp") => (out[i].sessionId = turn.sid)
             /\ \A B \in DOMAIN sessions :
                  (B # RequestedSession) => (out[i].sessionId # B)
             /\ out[i].id = Null
             /\ out[i].update \in {"agent_message_chunk", "user_message_chunk",
                                   "tool_call", "tool_result"}

\* C29: a prompt for a loaded session has written notifications while a
\* session made by session/new, the latest one, is registered as well
C29_Witness ==
    /\ payload.method = "session/prompt" /\ turn.sid = StoredId
    /\ sessionIDSeq = 1 /\ SessionIdOf(1, 1) \in DOMAIN sessions
    /\ Len(out) >= 3
    /\ \E i \in 1..Len(out) : out[i].update = "tool_result"

\* the step takes a session/new request
TakesSessionNew ==
    /\ TakesPayload
    /\ payload'.json # "empty" /\ ~UnmarshalRequest(payload').err
    /\ payload'.method = "session/new"

\* the ids in the registry that nextSessionID made
MadeIds == { id \in DOMAIN sessions : id[1] = "sess_" }

\* C30: the session sequence counter goes up by one on every session/new and
\* is otherwise left alone, so it never decreases or resets; the id a
\* session/new answers with ends in the new value of the counter, which no
\* id made before has, so two session/new responses never carry the same id
\* and a session/new never overwrites the entry of an earlier one, even when
\* the clock gives the same value twice
C30_SessionIdsAreUnique ==
    /\ [][IF TakesSessionNew
          THEN sessionIDSeq' = sessionIDSeq + 1
          ELSE sessionIDSeq' = sessionIDSeq]_vars
    /\ [][(TakesSessionNew /\ Last(out').code = 0)
            => LET sid == Last(out').result.sessionId
               IN /\ sid[1] = "sess_" /\ sid[3] = sessionIDSeq'
                  /\ sid \notin DOMAIN sessions
                  /\ sid \in DOMAIN sessions'
                  /\ \A id \in MadeIds : sessions'[id] = sessions[id]]_vars
    /\ [](\A id \in MadeIds : 1 <= id[3] /\ id[3] <= sessionIDSeq)
    /\ [](\A a \in MadeIds, b \in MadeIds : (a[3] = b[3]) => (a = b))

\* C30: two sessions made by session/new, at the same clock value, are
\* registered under different ids, and a third session/new failed in between
C30_Witness ==
    /\ NewDone
    /\ sessionIDSeq = 3
    /\ MadeIds = {SessionIdOf(1, 1), SessionIdOf(1, 3)}
    /\ Last(out).result.sessionId = SessionIdOf(1, 3)

\* the step reads an empty line
TakesEmptyLine == TakesPayload /\ payload'.json = "empty"

\* C31: an empty inbound line is ignored: no frame is written for it, the
\* registry, the sessions, the session files and the counter stay as they
\* are, and the server goes on to read the next line, which it takes as ever
C31_EmptyLineIsIgnored ==
    /\ [][TakesEmptyLine
            => /\ out' = <<>>
               /\ UNCHANGED <<sessions, agentSession, disk, sessionIDSeq, chats,
                              runErr>>
               /\ pc' = "read" /\ pending' = <<>>
               /\ lineNo' = lineNo + 1]_vars
    /\ [](/\ pc = "read" /\ curLine.whole = "empty" /\ lineNo < MaxLines
            => /\ ENABLED HandleInitialize
               /\ ENABLED HandleSessionNew
               /\ ENABLED ParseError
               /\ ENABLED EmptyPayload
               /\ ENABLED ReadEOF)

\* C31: an empty line was read by a server with a registered session that
\* has a history
C31_Witness ==
    /\ pc = "read" /\ curLine.whole = "empty" /\ payload.json = "empty"
    /\ lineNo = 2 /\ out = <<>>
    /\ \E id \in DOMAIN sessions : sessions[id].Messages # <<>>

\* the Save of the turn failed
SaveFailed ==
    \E k \in DOMAIN log : log[k].ev = "Save" /\ log[k].text = <<"e", "r", "r">>

\* C32: a failure of Save at the end of a turn is not fatal. It is reported
\* to OnWarning, when that hook is set, and ProcessUserInput returns nil with
\* the history in memory whole: the answer of the LLM is its last message.
\* Under session/prompt the request is answered with stopReason end_turn and
\* the server reads on
C32_SaveFailureIsNotFatal ==
    \A k \in DOMAIN log :
        (log[k].ev = "Save" /\ log[k].text = <<"e", "r", "r">>)
          => /\ turn.result = "ok"
             /\ turn.cb.OnWarning
                  => (k < Len(log) /\ log[k + 1].ev = "OnWarning")
             /\ \A j \in (k + 1)..Len(log) : log[j].ev \notin {"Chat", "Save"}
             /\ log[k].n = Len(Messages)
             /\ Len(Messages) > turn.start
             /\ Messages[turn.start + 1] = UserMessage
             /\ Last(Messages) = turn.assistantResponse
             /\ \A r \in 1..Len(turn.rounds) : RoundAnswered(turn.rounds[r])
             /\ (turn.cb.impl = "acp")
                  => /\ Last(out) = ResponseOK(turn.reqId, ResultEndTurn)
                     /\ sessions[turn.sid] = agentSession
                     /\ pc = "read" /\ runErr = "none"

\* C32: the Save of a session/prompt turn with a tool round failed, and the
\* session file does not hold the turn
C32_Witness ==
    /\ SaveFailed /\ turn.cb.impl = "acp"
    /\ Len(turn.rounds) = 2
    /\ Last(out).result.text = "end_turn"
    /\ Len(PersistedMessages) < Len(Messages)

\* the calls the backend requested in the turn, as far as the loop has come
\* to them, taken from the assistant messages
CallsSoFar ==
    Flatten([k \in 1..Len(turn.rounds) |->
               LET calls == Messages[turn.rounds[k].at].ToolCalls
               IN IF k = Len(turn.rounds) /\ pc = "tool"
                  THEN SubSeq(calls, 1, turn.ti - 1) ELSE calls])

\* the log shows a hook only if the caller has set it
OnlySetHooksAreCalled ==
    \A i \in DOMAIN log :
        /\ (log[i].ev = "OnAssistantMessage") => turn.cb.OnAssistantMessage
        /\ (log[i].ev = "OnToolCall") => turn.cb.OnToolCall
        /\ (log[i].ev = "OnToolResult") => turn.cb.OnToolResult
        /\ (log[i].ev = "OnWarning") => turn.cb.OnWarning
        /\ (log[i].ev = "ShouldExecuteTool") => turn.cb.ShouldExecuteTool

\* C33: the confirmation hook is consulted only in prompt mode, and only if
\* it is set: in auto mode, and in prompt mode without the hook, every
\* requested tool is executed. The other hooks are optional: whichever of
\* them are set, the history of the turn is the user message and, round by
\* round, what the backend answered and what the gate and the tools gave,
\* and the call fails exactly when the LLM failed
C33_HooksAreOptional ==
    (turn.result # "none")
      => /\ OnlySetHooksAreCalled
         /\ \A i \in DOMAIN log :
              (log[i].ev = "ShouldExecuteTool") => (agentMode = ModePrompt)
         /\ (agentMode = ModeAuto \/ ~turn.cb.ShouldExecuteTool)
              => \A k \in 1..Len(Outcomes) : Outcomes[k].ev \in {"Execute", "NotFound"}
         /\ [k \in 1..Len(Outcomes) |-> Outcomes[k].call] = CallsSoFar
         /\ Len(ToolMessages) = Len(Outcomes)
         /\ \A k \in 1..Len(Outcomes) :
              /\ ToolMessages[k].Content
                   = IF Outcomes[k].ev = "ShouldExecuteTool" THEN StrUserDenied
                     ELSE ExecutedText(Outcomes[k])
              /\ ToolMessages[k].ToolCalls
                   = <<ToolCall(Outcomes[k].call.ToolCallID, Outcomes[k].call.Name,
                                NilArgs)>>
         /\ Messages[turn.start + 1] = UserMessage
         /\ \A k \in 1..Len(DoneRounds) : RoundAnswered(DoneRounds[k])
         /\ (turn.result = "error")
              <=> (pc # "tool" /\ Len(ChatIndexes) = Len(turn.rounds) + 1)
         /\ (turn.result = "ok")
              => (Last(turn.rounds).n = 0 /\ Last(Messages) = turn.assistantResponse)

\* C33: in prompt mode a caller that set no hook at all got a turn with a
\* round of two calls, both attempted, and an answer
C33_Witness ==
    /\ agentMode = ModePrompt
    /\ turn.cb = Callbacks("library", FALSE, FALSE, FALSE, FALSE, FALSE)
    /\ turn.result = "ok"
    /\ Len(Outcomes) = 2
    /\ Outcomes[1].ev = "NotFound" /\ Outcomes[2].ev = "Execute"

\* C34: initialize is stateless. Whenever the server is about to read a line
\* an initialize request is answered, however many were answered before and
\* whatever the registry holds; handling it leaves the registry, the
\* sessions, the agent's session, the files and the sequence counter as they
\* are and writes one response with the id of the request, protocol version
\* 1, loadSession true and audio, embeddedContext and image false
C34_InitializeIsStateless ==
    /\ (pc = "read" /\ pending = <<>> /\ lineNo < MaxLines) => ENABLED HandleInitialize
    /\ ~ ENABLED (/\ HandleInitialize
                  /\ ~ (/\ UNCHANGED <<sessions, sessionIDSeq, agentSession, disk,
                                      chats, runErr>>
                        /\ pc' = "read"
                        /\ Len(out') = 1
                        /\ out'[1].fr = "response" /\ out'[1].code = 0
                        /\ out'[1].id = payload'.id
                        /\ out'[1].result.kind = "initialize"
                        /\ out'[1].result.caps = <<1, TRUE, FALSE, FALSE, FALSE>>))

\* C34: a third line, an initialize request, was answered by a server that
\* has a registered session with messages from a turn
C34_Witness ==
    /\ pc = "read" /\ lineNo = 3
    /\ payload.method = "initialize" /\ ~UnmarshalRequest(payload).err
    /\ out = <<ResponseOK(<<3>>, ResultInitialize)>>
    /\ sessionIDSeq = 1
    /\ \E id \in DOMAIN sessions : Len(sessions[id].Messages) >= 2

\* the blocks of the prompt that has been read
PromptBlocksRead == DecodeParams(payload.params).Prompt

\* a block that contributes: text that is not blank, or a resource link
Contributes(b) ==
    \/ b.Type = "text" /\ \E i \in 1..Len(b.Text) : b.Text[i] \notin {" ", "\t", "\n", "\r"}
    \/ b.Type = "resource_link"

\* the contributing blocks of the prompt, in their order
Contributing == SelectSeq(PromptBlocksRead, Contributes)

\* what a contributing block gives: its text as it is, or one description
\* that starts with the name of the resource, holds its URI and ends with the
\* closing line
IsContributionOf(b, part) ==
    IF b.Type = "text" THEN part = b.Text
    ELSE /\ SubSeq(part, 1, 2 + Len(b.Name)) = <<"=== Resource: ">> \o b.Name \o <<" ===\n">>
         /\ \E i \in 1..Len(part) :
               SubSeq(part, i, i + Len(b.URI) + 1) = <<"URI: ">> \o b.URI \o <<"\n">>
         /\ Last(part) = "=== End Resource ===\n"
         /\ Len(SelectSeq(part, LAMBDA c : c = "=== Resource: ")) = 1

C36_ParseErrorHasNullIdMember ==
    \A i \in 1..Len(out) :
        (out[i].fr = "response" /\ out[i].code = -32700)
          => /\ MarshalResponseId(out[i].id).present
             /\ MarshalResponseId(out[i].id).value = Null

\* the next request is a session/prompt for the session of the turn before
PromptsSameSession == HandleSessionPrompt /\ turn'.sid = turn.sid

\* C37: after a session/prompt that the LLM failed, the registry entry of the
\* session holds, after the history of before, the user message of the turn
\* and the rounds done before the failure. The next session/prompt on the
\* session appends its user message to exactly that history: where no round
\* was done the unanswered user message is directly followed by the new one.
\* The first call of the LLM in a turn receives the history up to and with
\* the new user message, an unanswered one before it included
C37_FailedTurnStaysInHistory ==
    /\ PromptFailed
         => /\ sessions[turn.sid] = agentSession
            /\ Len(Messages) > turn.start
            /\ Messages[turn.start + 1] = UserMessage
            /\ \A k \in 1..Len(turn.rounds) : RoundAnswered(turn.rounds[k])
            /\ Len(Messages) = IF turn.rounds = <<>> THEN turn.start + 1
                               ELSE Last(turn.rounds).at + Last(turn.rounds).n
            /\ (chats < MaxChats /\ lineNo < MaxLines) => ENABLED PromptsSameSession
            /\ ~ ENABLED (/\ PromptsSameSession
                          /\ ~ (/\ agentSession'.Messages
                                     = Append(Messages,
                                              Message("user", turn'.userInput, <<>>))
                                /\ sessions'[turn.sid] = agentSession'
                                /\ turn'.start = Len(Messages)
                                /\ (turn.rounds = <<>>)
                                     => agentSession'.Messages[turn'.start] = UserMessage))
    /\ (turn.cb.impl = "acp" /\ ChatIndexes # <<>>)
         => /\ Received(1) = turn.start + 1
            /\ Messages[turn.start + 1] = UserMessage

\* C37: on a session whose prompt before failed at the first call of the
\* LLM, the LLM has been called for the next prompt and has received the
\* unanswered user message directly followed by the new one
C37_Witness ==
    /\ turn.cb.impl = "acp" /\ ChatIndexes # <<>>
    /\ chats = 2 /\ lineNo = 3
    /\ turn.sid[1] = "sess_"
    /\ turn.start = 1
    /\ Received(1) = 2
    /\ Messages[1].Role = "user" /\ Messages[2] = UserMessage

\* frames as json.Marshal writes them: the strings of a frame are encoded
Wire(frames) ==
    [k \in 1..Len(frames) |->
       [frames[k] EXCEPT !.text = JsonString(@), !.call = JsonToolCall(@)]]

\* a session/prompt has been answered with a result
PromptDone ==
    pc = "read" /\ turn.cb.impl = "acp" /\ turn.result = "ok"

\* the notifications written live during the turn
Live == SelectSeq(out, LAMBDA f : f.fr = "notification")

\* every round of the turn has at most one tool call
SingleCallRounds == \A k \in 1..Len(turn.rounds) : turn.rounds[k].n <= 1

\* the next request is a session/load of the session of the turn before
LoadsSameSession ==
    HandleSessionLoad /\ payload'.params.sessionId = turn.sid

\* the notifications of frames that are not user_message_chunk
ExceptUserChunks(frames) ==
    SelectSeq(frames, LAMBDA f : f.fr = "notification" /\ f.update # "user_message_chunk")

InWrite == wr.g[RunGoroutine].pc \notin {"idle", "done"}

\* C39: the registry lock and the writer lock are never held together, and
\* neither is asked for while it is held, so no Lock waits: the registry
\* lock is free whenever a frame is to be written and whenever the LLM, a
\* tool or the session package is called, the writer lock is free whenever
\* writeFramedJSON is entered, and inside writeFramedJSON no step of a
\* handler or hook is taken. A handler that has not returned can always
\* take a step, and it returns with both locks free
C39_LocksAreNeverNested ==
    /\ ~(wr.sessionsLock # "" /\ wr.lock # "")
    /\ (pending # <<>> /\ Head(pending) = "Lock") => (wr.sessionsLock = "")
    /\ (wr.g[RunGoroutine].pc = "lock") => (wr.lock = "")
    /\ (pending # <<>> /\ Head(pending) \notin {"sessions", "Unlock"})
         => (wr.sessionsLock = "")
    /\ (wr.sessionsLock # "") => ~InWrite
    /\ InWrite => (pending # <<>> /\ Head(pending) = "write" /\ wr.sessionsLock = "")
    /\ (pc = "handler") => ENABLED LockNext
    /\ (pc = "read") => (wr.sessionsLock = "" /\ wr.lock = "" /\ pending = <<>>)

\* C39: a session/prompt with a round of one tool call has taken and given
\* back the registry lock, called the LLM and the tool, and holds the writer
\* lock for the tool_result frame; the LLM is to be called again
C39_Witness ==
    /\ pc = "handler"
    /\ wr.lock = RunGoroutine /\ wr.sessionsLock = ""
    /\ wr.frames = 2
    /\ pending = <<"write", "Chat", "Save", "write">>

\* the next request is a session/load of session id that succeeds, or fails
LoadSucceeds(id) == HandleSessionLoad /\ payload'.params.sessionId = id

LoadIsRefused(id) == HandleSessionLoadFails /\ payload'.params.sessionId = id

\* C40: a session made by session/new has a file only once a turn on it has
\* come to its Save: session/new writes no file, and the file of such a
\* session ends with an answer of the LLM without tool calls. While it has
\* no file a session/load of its id is refused with -32602 and the registry
\* stays as it is. A session/load of a registered id that has a file puts the
\* session of the file in the registry in place of the one in memory, whose
\* messages appended since the last Save are gone with it
C40_PersistedOnlyAtCheckpoint ==
    /\ ~ ENABLED (HandleSessionNew /\ disk' # disk)
    /\ \A id \in MadeIds :
         /\ (id \in DOMAIN disk)
              => /\ disk[id].Messages # <<>>
                 /\ Last(disk[id].Messages).Role = "assistant"
                 /\ Last(disk[id].Messages).ToolCalls = <<>>
                 /\ Len(disk[id].Messages) <= Len(sessions[id].Messages)
         /\ (id \notin DOMAIN disk)
              => /\ ~ ENABLED LoadSucceeds(id)
                 /\ (pc = "read" /\ pending = <<>> /\ lineNo < MaxLines)
                      => ENABLED LoadIsRefused(id)
                 /\ ~ ENABLED (/\ LoadIsRefused(id)
                               /\ ~ (/\ out' = <<ResponseError(payload'.id, -32602,
                                                              "Invalid params",
                                                              "session not found")>>
                                     /\ UNCHANGED <<sessions, disk>>))
    /\ \A id \in (DOMAIN sessions) \cap (DOMAIN disk) :
         /\ (pc = "read" /\ pending = <<>> /\ lineNo < MaxLines)
              => ENABLED LoadSucceeds(id)
         /\ ~ ENABLED (/\ LoadSucceeds(id)
                       /\ ~ (/\ sessions'[id].Messages = disk[id].Messages
                             /\ sessions'[id].Name = disk[id].Name
                             /\ DOMAIN sessions' = DOMAIN sessions
                             /\ \A other \in DOMAIN sessions :
                                  (other # id) => (sessions'[other] = sessions[other])
                             /\ disk' = disk))

\* C40: a session made by session/new, with the user message of a turn that
\* failed in memory and no file, was asked for by session/load: -32602
C40_Witness ==
    /\ pc = "read" /\ lineNo = 3
    /\ payload.method = "session/load"
    /\ payload.params.sessionId \in MadeIds
    /\ payload.params.sessionId \notin DOMAIN disk
    /\ sessions[payload.params.sessionId].Messages # <<>>
    /\ out = <<ResponseError(payload.id, -32602, "Invalid params", "session not found")>>

====
